---- MODULE Spec2Model ----
(***************************************************************************)
(* Model of the predicate registry program (programs/predicate_registry):  *)
(* the registry, attester, policy and used-uuid accounts, the instructions *)
(* that change them, and the byte-level signature proof verifier.          *)
(*                                                                         *)
(* Public keys are model values; to_bytes gives each its own 32-byte       *)
(* string.  The SHA-256 hash and Ed25519 signing are library code: the     *)
(* hash is idealised as a collision-free encoding into 32 bytes, a         *)
(* signature as a 64-byte string only its key can produce for a digest.    *)
(***************************************************************************)
EXTENDS Integers, Sequences, FiniteSets, TLC

\* ------------------------------------------------------------------ bounds

\* expirations an attestation may carry: 0..MaxExp
MaxExp == 1
\* the clock runs from CLOCK_DRIFT_BUFFER to CLOCK_DRIFT_BUFFER + MaxTicks
MaxTicks == 1

\* attester rent deposits one principal pays at most, less those refunded
MaxDeposits == 2

\* the tokens there are, all in one account at the start
MaxTokens == 2

\* ------------------------------------------------------- program constants

CLOCK_DRIFT_BUFFER == 30
POLICY_LEN == 200
HEADER_LEN == 16
SIG_LEN == 64
PUBKEY_LEN == 32
INSTRUCTION_INDEX_CURRENT == 65535
UUID_LEN == 16
HASH_LEN == 32

\* ------------------------------------------------------------ byte strings

Rep(n, b) == [i \in 1..n |-> b]

Slice(s, from, to) == [i \in 1..(to - from) |-> s[from + i]]

\* u16::from_le_bytes
U16FromLe(lo, hi) == lo + 256 * hi

\* u16::to_le_bytes
U16ToLe(x) == <<x % 256, (x \div 256) % 256>>

\* u64::to_le_bytes / i64::to_le_bytes (two's complement, 8 bytes)
RECURSIVE LeBytes(_, _)
LeBytes(x, n) == IF n = 0 THEN <<>> ELSE <<x % 256>> \o LeBytes(x \div 256, n - 1)

U64ToLe(x) == LeBytes(x, 8)

I64ToLe(x) ==
    IF x >= 0 THEN LeBytes(x, 8)
    ELSE LET m == LeBytes(-x - 1, 8) IN [i \in 1..8 |-> 255 - m[i]]

\* ----------------------------------------------------------------- keys

Signers == {"U1", "U2"}
AttesterKeys == {"A1", "A2"}
Programs == {"G1", "G2", "G3", "G4"}
ED25519_PROGRAM == "Ed25519SigVerify"
OTHER_PROGRAM == "Other"

KeyByte(k) ==
    CASE k = "U1" -> 1 [] k = "U2" -> 2
      [] k = "A1" -> 3 [] k = "A2" -> 4
      [] k = "G1" -> 5 [] k = "G2" -> 6
      [] k = "G3" -> 7 [] k = "G4" -> 8
      [] OTHER -> 9

\* Pubkey::to_bytes
ToBytes(k) == Rep(PUBKEY_LEN, KeyByte(k))

UuidBytes(u) == Rep(UUID_LEN, u)

\* ------------------------------------------------------ library idealised

\* solana_program::hash::hash, idealised: the run-length encoding of the
\* input, zero-padded to 32 bytes (collision-free on every input whose
\* encoding fits, which covers every input of this model)
RECURSIVE RunEnd(_, _)
RunEnd(s, i) == IF i < Len(s) /\ s[i + 1] = s[1] THEN RunEnd(s, i + 1) ELSE i

RECURSIVE Rle(_)
Rle(s) ==
    IF s = <<>> THEN <<>>
    ELSE LET n == RunEnd(s, 1)
         IN  <<n, s[1]>> \o Rle(SubSeq(s, n + 1, Len(s)))

Hash(data) ==
    LET r == Rle(data)
    IN  [i \in 1..HASH_LEN |-> IF i <= Len(r) THEN r[i] ELSE 0]

\* an Ed25519 signature of key k over msg, idealised: a 64-byte string
\* determined by (k, msg) and by nothing else
Sign(k, msg) == msg \o ToBytes(k)

\* bytes that are no signature of any key
JunkSig == Rep(SIG_LEN, 255)

\* ------------------------------------------------------- message builder

\* a builder that hashes the embedded msg_sender where the submitter belongs
HashInput_MsgSender(st, validator) ==
    UuidBytes(st.uuid)
        \o ToBytes(st.msg_sender)
        \o ToBytes(st.msg_sender)
        \o U64ToLe(st.msg_value)
        \o st.encoded_sig_and_args
        \o st.policy_id
        \o I64ToLe(st.expiration)

\* Statement::hash_statement_safe(validator): the bytes that are hashed
HashInput(st, validator) ==
    UuidBytes(st.uuid)
        \o ToBytes(st.msg_sender)
        \o ToBytes(validator)
        \o U64ToLe(st.msg_value)
        \o st.encoded_sig_and_args
        \o st.policy_id
        \o I64ToLe(st.expiration)

HashStatementSafe(st, validator) == Hash(HashInput(st, validator))

\* Task::hash_task_with_expiry: the bytes that are hashed
HashInputWithExpiry(st) ==
    UuidBytes(st.uuid)
        \o ToBytes(st.msg_sender)
        \o ToBytes(st.target)
        \o U64ToLe(st.msg_value)
        \o st.encoded_sig_and_args
        \o st.policy_id
        \o I64ToLe(st.expiration)

\* ------------------------------------------ native Ed25519 instruction data

\* one signature entry, laid out as the Ed25519 program expects it:
\* a 16-byte header, then signature, public key and message
Ed25519Offsets(sigOff, sigIx, pkOff, pkIx, msgOff, msgSize, msgIx) ==
    U16ToLe(sigOff) \o U16ToLe(sigIx) \o U16ToLe(pkOff)
        \o U16ToLe(pkIx) \o U16ToLe(msgOff) \o U16ToLe(msgSize) \o U16ToLe(msgIx)

Ed25519Header(num, sigOff, sigIx, pkOff, pkIx, msgOff, msgSize, msgIx) ==
    <<num, 0>> \o Ed25519Offsets(sigOff, sigIx, pkOff, pkIx, msgOff, msgSize, msgIx)

Ed25519Data(sig, pk, msg) ==
    Ed25519Header(1, HEADER_LEN, INSTRUCTION_INDEX_CURRENT,
                  HEADER_LEN + SIG_LEN, INSTRUCTION_INDEX_CURRENT,
                  HEADER_LEN + SIG_LEN + PUBKEY_LEN, Len(msg),
                  INSTRUCTION_INDEX_CURRENT)
        \o sig \o pk \o msg

\* the header points at one (signature, key, message) and the data carries a
\* second, unreferenced copy of another triple after it
Ed25519DataWithDecoy(sig, pk, msg, dsig, dpk, dmsg) ==
    Ed25519Data(sig, pk, msg) \o dsig \o dpk \o dmsg

Instruction(program, accounts, data) ==
    [program_id |-> program, accounts |-> accounts, data |-> data]

\* what the native program itself verified when it ran instruction self: for
\* each of its num_signatures entries (a 14-byte offsets block each, after the
\* two count bytes) the signature, key and message that block locates, in the
\* data of the instruction each index field names (0xFFFF: the instruction
\* itself).  A region that cannot be read is empty.
NativeRegion(ixs, self, ixIdx, off, len) ==
    LET src == IF ixIdx = INSTRUCTION_INDEX_CURRENT THEN self ELSE ixIdx + 1
    IN  IF src \in DOMAIN ixs /\ off + len <= Len(ixs[src].data)
        THEN Slice(ixs[src].data, off, off + len)
        ELSE <<>>

NativeEntry(ixs, self, h) ==
    LET d == ixs[self].data
    IN  [sig |-> NativeRegion(ixs, self, U16FromLe(d[h + 3], d[h + 4]),
                              U16FromLe(d[h + 1], d[h + 2]), SIG_LEN),
         pk  |-> NativeRegion(ixs, self, U16FromLe(d[h + 7], d[h + 8]),
                              U16FromLe(d[h + 5], d[h + 6]), PUBKEY_LEN),
         msg |-> NativeRegion(ixs, self, U16FromLe(d[h + 13], d[h + 14]),
                              U16FromLe(d[h + 9], d[h + 10]),
                              U16FromLe(d[h + 11], d[h + 12]))]

NativeWellFormed(ixs, self) ==
    LET d == ixs[self].data
    IN  /\ ixs[self].program_id = ED25519_PROGRAM
        /\ Len(d) >= 2
        /\ d[1] >= 1
        /\ 2 + 14 * d[1] <= Len(d)

NativeVerified(ixs, self) ==
    IF ~NativeWellFormed(ixs, self) THEN {}
    ELSE {NativeEntry(ixs, self, 2 + 14 * i) : i \in 0..(ixs[self].data[1] - 1)}

\* ------------------------------------------------- signature proof verifier

\* a verifier that does not look at the instruction index fields
VerifyInstruction_NoSentinel(signature, pubkey, message, ed25519_ix) ==
    LET ix_data == ed25519_ix.data
    IN
    IF ed25519_ix.program_id # ED25519_PROGRAM THEN "InvalidSignature"
    ELSE IF ed25519_ix.accounts # <<>> THEN "InvalidSignature"
    ELSE IF ~(Len(ix_data) >= HEADER_LEN) THEN "InvalidSignature"
    ELSE IF ix_data[1] # 1 THEN "InvalidSignature"
    ELSE
    LET sig_offset == U16FromLe(ix_data[3], ix_data[4])
        sig_ix_idx == U16FromLe(ix_data[5], ix_data[6])
        pubkey_offset == U16FromLe(ix_data[7], ix_data[8])
        pubkey_ix_idx == U16FromLe(ix_data[9], ix_data[10])
        msg_offset == U16FromLe(ix_data[11], ix_data[12])
        msg_size == U16FromLe(ix_data[13], ix_data[14])
        msg_ix_idx == U16FromLe(ix_data[15], ix_data[16])
    IN
    IF ~(sig_offset >= HEADER_LEN
            /\ pubkey_offset >= HEADER_LEN
            /\ msg_offset >= HEADER_LEN) THEN "InvalidSignature"
    ELSE IF ~(Len(ix_data) >= sig_offset + SIG_LEN) THEN "InvalidSignature"
    ELSE IF ~(Len(ix_data) >= pubkey_offset + PUBKEY_LEN) THEN "InvalidSignature"
    ELSE IF ~(Len(ix_data) >= msg_offset + msg_size) THEN "InvalidSignature"
    ELSE IF msg_size # HASH_LEN THEN "InvalidSignature"
    ELSE IF Slice(ix_data, sig_offset, sig_offset + SIG_LEN) # signature
        THEN "InvalidSignature"
    ELSE IF Slice(ix_data, pubkey_offset, pubkey_offset + PUBKEY_LEN) # pubkey
        THEN "InvalidSignature"
    ELSE IF Slice(ix_data, msg_offset, msg_offset + msg_size) # message
        THEN "InvalidSignature"
    ELSE "Ok"

\* a verifier that does not compare the public key
VerifyInstruction_NoPubkey(signature, pubkey, message, ed25519_ix) ==
    LET ix_data == ed25519_ix.data
    IN
    IF ed25519_ix.program_id # ED25519_PROGRAM THEN "InvalidSignature"
    ELSE IF ed25519_ix.accounts # <<>> THEN "InvalidSignature"
    ELSE IF ~(Len(ix_data) >= HEADER_LEN) THEN "InvalidSignature"
    ELSE IF ix_data[1] # 1 THEN "InvalidSignature"
    ELSE
    LET sig_offset == U16FromLe(ix_data[3], ix_data[4])
        sig_ix_idx == U16FromLe(ix_data[5], ix_data[6])
        pubkey_offset == U16FromLe(ix_data[7], ix_data[8])
        pubkey_ix_idx == U16FromLe(ix_data[9], ix_data[10])
        msg_offset == U16FromLe(ix_data[11], ix_data[12])
        msg_size == U16FromLe(ix_data[13], ix_data[14])
        msg_ix_idx == U16FromLe(ix_data[15], ix_data[16])
    IN
    IF ~(sig_ix_idx = INSTRUCTION_INDEX_CURRENT
            /\ pubkey_ix_idx = INSTRUCTION_INDEX_CURRENT
            /\ msg_ix_idx = INSTRUCTION_INDEX_CURRENT) THEN "InvalidSignature"
    ELSE IF ~(sig_offset >= HEADER_LEN
            /\ pubkey_offset >= HEADER_LEN
            /\ msg_offset >= HEADER_LEN) THEN "InvalidSignature"
    ELSE IF ~(Len(ix_data) >= sig_offset + SIG_LEN) THEN "InvalidSignature"
    ELSE IF ~(Len(ix_data) >= pubkey_offset + PUBKEY_LEN) THEN "InvalidSignature"
    ELSE IF ~(Len(ix_data) >= msg_offset + msg_size) THEN "InvalidSignature"
    ELSE IF msg_size # HASH_LEN THEN "InvalidSignature"
    ELSE IF Slice(ix_data, sig_offset, sig_offset + SIG_LEN) # signature
        THEN "InvalidSignature"
    ELSE IF Slice(ix_data, msg_offset, msg_offset + msg_size) # message
        THEN "InvalidSignature"
    ELSE "Ok"

\* a verifier that does not look at the accounts of the instruction
VerifyInstruction_AnyAccounts(signature, pubkey, message, ed25519_ix) ==
    LET ix_data == ed25519_ix.data
    IN
    IF ed25519_ix.program_id # ED25519_PROGRAM THEN "InvalidSignature"
    ELSE IF ~(Len(ix_data) >= HEADER_LEN) THEN "InvalidSignature"
    ELSE IF ix_data[1] # 1 THEN "InvalidSignature"
    ELSE
    LET sig_offset == U16FromLe(ix_data[3], ix_data[4])
        sig_ix_idx == U16FromLe(ix_data[5], ix_data[6])
        pubkey_offset == U16FromLe(ix_data[7], ix_data[8])
        pubkey_ix_idx == U16FromLe(ix_data[9], ix_data[10])
        msg_offset == U16FromLe(ix_data[11], ix_data[12])
        msg_size == U16FromLe(ix_data[13], ix_data[14])
        msg_ix_idx == U16FromLe(ix_data[15], ix_data[16])
    IN
    IF ~(sig_ix_idx = INSTRUCTION_INDEX_CURRENT
            /\ pubkey_ix_idx = INSTRUCTION_INDEX_CURRENT
            /\ msg_ix_idx = INSTRUCTION_INDEX_CURRENT) THEN "InvalidSignature"
    ELSE IF ~(sig_offset >= HEADER_LEN
            /\ pubkey_offset >= HEADER_LEN
            /\ msg_offset >= HEADER_LEN) THEN "InvalidSignature"
    ELSE IF ~(Len(ix_data) >= sig_offset + SIG_LEN) THEN "InvalidSignature"
    ELSE IF ~(Len(ix_data) >= pubkey_offset + PUBKEY_LEN) THEN "InvalidSignature"
    ELSE IF ~(Len(ix_data) >= msg_offset + msg_size) THEN "InvalidSignature"
    ELSE IF msg_size # HASH_LEN THEN "InvalidSignature"
    ELSE IF Slice(ix_data, sig_offset, sig_offset + SIG_LEN) # signature
        THEN "InvalidSignature"
    ELSE IF Slice(ix_data, pubkey_offset, pubkey_offset + PUBKEY_LEN) # pubkey
        THEN "InvalidSignature"
    ELSE IF Slice(ix_data, msg_offset, msg_offset + msg_size) # message
        THEN "InvalidSignature"
    ELSE "Ok"

\* verify_ed25519_signature, from the loaded instruction on: the program id,
\* the accounts, the header and the three regions of ed25519_ix
VerifyInstruction(signature, pubkey, message, ed25519_ix) ==
    LET ix_data == ed25519_ix.data
    IN
    IF ed25519_ix.program_id # ED25519_PROGRAM THEN "InvalidSignature"
    ELSE IF ed25519_ix.accounts # <<>> THEN "InvalidSignature"
    ELSE IF ~(Len(ix_data) >= HEADER_LEN) THEN "InvalidSignature"
    ELSE IF ix_data[1] # 1 THEN "InvalidSignature"
    ELSE
    LET sig_offset == U16FromLe(ix_data[3], ix_data[4])
        sig_ix_idx == U16FromLe(ix_data[5], ix_data[6])
        pubkey_offset == U16FromLe(ix_data[7], ix_data[8])
        pubkey_ix_idx == U16FromLe(ix_data[9], ix_data[10])
        msg_offset == U16FromLe(ix_data[11], ix_data[12])
        msg_size == U16FromLe(ix_data[13], ix_data[14])
        msg_ix_idx == U16FromLe(ix_data[15], ix_data[16])
    IN
    IF ~(sig_ix_idx = INSTRUCTION_INDEX_CURRENT
            /\ pubkey_ix_idx = INSTRUCTION_INDEX_CURRENT
            /\ msg_ix_idx = INSTRUCTION_INDEX_CURRENT) THEN "InvalidSignature"
    ELSE IF ~(sig_offset >= HEADER_LEN
            /\ pubkey_offset >= HEADER_LEN
            /\ msg_offset >= HEADER_LEN) THEN "InvalidSignature"
    ELSE IF ~(Len(ix_data) >= sig_offset + SIG_LEN) THEN "InvalidSignature"
    ELSE IF ~(Len(ix_data) >= pubkey_offset + PUBKEY_LEN) THEN "InvalidSignature"
    ELSE IF ~(Len(ix_data) >= msg_offset + msg_size) THEN "InvalidSignature"
    ELSE IF msg_size # HASH_LEN THEN "InvalidSignature"
    ELSE IF Slice(ix_data, sig_offset, sig_offset + SIG_LEN) # signature
        THEN "InvalidSignature"
    ELSE IF Slice(ix_data, pubkey_offset, pubkey_offset + PUBKEY_LEN) # pubkey
        THEN "InvalidSignature"
    ELSE IF Slice(ix_data, msg_offset, msg_offset + msg_size) # message
        THEN "InvalidSignature"
    ELSE "Ok"

\* a verifier that accepts the proof at any earlier index of the transaction
VerifyEd25519Signature_AnyEarlier(signature, pubkey, message, ixs, cur) ==
    IF \E i \in 1..Len(ixs) :
          i <= cur /\ VerifyInstruction(signature, pubkey, message, ixs[i]) = "Ok"
    THEN "Ok" ELSE "InvalidSignature"

\* verify_ed25519_signature: "Ok" or the error it returns.  ixs holds the
\* instructions of the transaction and cur is the 0-based index of the running
\* one, so the instruction at index cur - 1 is ixs[cur].
VerifyEd25519Signature(signature, pubkey, message, ixs, cur) ==
    IF cur = 0 THEN "InvalidSignature"
    ELSE IF cur \notin DOMAIN ixs THEN "InvalidSignature"
    ELSE VerifyInstruction(signature, pubkey, message, ixs[cur])


\* ------------------------------------------------------------------ state

VARIABLES
    clock,      \* Clock::get().unix_timestamp
    registry,   \* the PredicateRegistry account, keyed by its seed, once created
    attesters,  \* attester key -> AttesterAccount, for the accounts that exist
    policies,   \* client program -> PolicyAccount, for the accounts that exist
    used,       \* uuid -> UsedUuidAccount, for the accounts that exist
    log,        \* the UuidMarkedUsed events emitted so far
    rent,       \* principal -> used-uuid rent deposits paid, less those refunded
    attester_rent, \* the attester rent ledger: principal followed -> deposits
                \* paid, less those refunded
    attester_payer, \* attester account -> the followed principal who funded it
    client_policies, \* client -> PolicyAccount of the per-client instructions
    counters, \* owner -> CounterAccount of the counter program
    token_accounts, \* SPL token account -> owner, mint, amount
    protected, \* (token account, owner) -> ProtectedTokenAccount
    hashing,    \* the message builder on its own: two tasks, their bytes and digests
    probe,      \* a call of verify_ed25519_signature on its own: inputs, result
    expiry      \* the two expiry comparisons on their own, on the 64 bits of
                \* an i64: the build, the inputs, the two outcomes

vars == <<clock, registry, attesters, policies, used, log, rent, attester_rent,
          attester_payer, client_policies, counters, token_accounts, protected,
          hashing, probe, expiry>>

REGISTRY_SEED == "predicate_registry"

Uuids == {1, 2}
Exps == 0..MaxExp
PolicyIds == {<<80>>, <<81>>}
LongPolicyId == Rep(65, 80)
CapPolicyId == Rep(64, 82)
\* the policy ids the two policy instructions are called with
PolicyInputs == PolicyIds \cup {<<>>, CapPolicyId, LongPolicyId}

\* no call of the message builder on its own is under way
IdleHashing ==
    [a |-> << >>, b |-> << >>, va |-> "", vb |-> "",
     ha |-> <<>>, hb |-> <<>>, da |-> <<>>, db |-> <<>>,
     wa |-> <<>>, wb |-> <<>>, state |-> "idle"]

\* no call of the verifier on its own is under way
IdleProbe ==
    [signature |-> <<>>, pubkey |-> <<>>, message |-> <<>>,
     expected |-> [sig |-> <<>>, pk |-> <<>>, msg |-> <<>>],
     tx |-> [cur |-> 0, ixs |-> <<>>], tampered |-> FALSE, result |-> "idle"]

\* no expiry comparison on its own is under way
IdleExpiry ==
    [build |-> "", now |-> [base |-> 0, off |-> 0],
     expiration |-> [base |-> 0, off |-> 0],
     validate |-> "idle", cleanup |-> "idle"]

Init ==
    /\ clock = CLOCK_DRIFT_BUFFER
    /\ registry = << >>
    /\ attesters = << >>
    /\ policies = << >>
    /\ used = << >>
    /\ log = {}
    /\ rent = [s \in Signers |-> 0]
    /\ attester_rent = << >>
    /\ attester_payer = << >>
    /\ client_policies = << >>
    /\ counters = << >>
    /\ token_accounts = << >>
    /\ protected = << >>
    /\ expiry = IdleExpiry
    /\ hashing = IdleHashing
    /\ probe = IdleProbe

\* the clock never runs backwards
Tick ==
    /\ clock < CLOCK_DRIFT_BUFFER + MaxTicks
    /\ clock' = clock + 1
    /\ UNCHANGED <<registry, attesters, policies, used, log, rent, attester_rent,
                   attester_payer, client_policies, counters, token_accounts,
                   protected, hashing, probe, expiry>>

\* Each instruction below is a Result operator, the value the instruction
\* returns ("Ok" or its error), and an action.  A failed instruction aborts its
\* transaction, so it leaves every account and the event log as they were.

\* --------------------------------------------------------------- registry

\* a registry whose updated_at is left at zero when it is created
RegistryInitialize_UpdatedUnset(authority, now) ==
    [authority |-> authority, created_at |-> now, updated_at |-> 0,
     total_attesters |-> 0, total_policies |-> 0]

\* PredicateRegistry::initialize
RegistryInitialize(authority, now) ==
    [authority |-> authority, created_at |-> now, updated_at |-> now,
     total_attesters |-> 0, total_policies |-> 0]

\* PredicateRegistry::increment_attester_count (u64 checked_add)
IncrementAttesterCount(r, now) ==
    [r EXCEPT !.total_attesters = @ + 1, !.updated_at = now]

\* a deregistration that leaves the count as it is
DecrementAttesterCount_Skipped(r, now) == [r EXCEPT !.updated_at = now]

\* PredicateRegistry::decrement_attester_count (u64 checked_sub)
DecrementAttesterCount(r, now) ==
    [r EXCEPT !.total_attesters = @ - 1, !.updated_at = now]

\* a set_policy_id that leaves the count as it is
IncrementPolicyCount_Skipped(r, now) == [r EXCEPT !.updated_at = now]

\* PredicateRegistry::increment_policy_count
IncrementPolicyCount(r, now) ==
    [r EXCEPT !.total_policies = @ + 1, !.updated_at = now]

\* an Initialize context whose registry account is not create-or-fail
InitializeResult_Again(authority) == "Ok"

\* the Initialize context and the initialize handler
InitializeResult(authority) ==
    IF REGISTRY_SEED \in DOMAIN registry THEN "AccountAlreadyInUse" ELSE "Ok"

Initialize ==
    \E authority \in Signers :
        LET err == InitializeResult(authority)
        IN  IF err # "Ok" THEN UNCHANGED vars
            ELSE /\ registry' = (REGISTRY_SEED :> RegistryInitialize(authority, clock))
                 /\ UNCHANGED <<clock, attesters, policies, used, log, rent,
                                attester_rent, attester_payer, client_policies,
                                counters, token_accounts, protected, hashing,
                                probe, expiry>>

\* the ledger after a followed principal paid (by = 1) or received (by = -1)
\* the rent deposit of an attester account
Moved(ledger, principal, by) ==
    IF principal \in DOMAIN ledger THEN [ledger EXCEPT ![principal] = @ + by]
    ELSE ledger

\* a RegisterAttester context without has_one = authority
RegisterAttesterResult_NoHasOne(authority, attester) ==
    IF REGISTRY_SEED \notin DOMAIN registry THEN "AccountNotInitialized"
    ELSE IF attester \in DOMAIN attesters THEN "AccountAlreadyInUse"
    ELSE "Ok"

\* the RegisterAttester context: registry loaded, attester account created
\* (init), then has_one = authority
RegisterAttesterResult(authority, attester) ==
    IF REGISTRY_SEED \notin DOMAIN registry THEN "AccountNotInitialized"
    ELSE IF attester \in DOMAIN attesters THEN "AccountAlreadyInUse"
    ELSE IF registry[REGISTRY_SEED].authority # authority THEN "Unauthorized"
    ELSE "Ok"

\* AttesterAccount::initialize
AttesterInitialize(attester, now) ==
    [attester |-> attester, is_registered |-> TRUE, registered_at |-> now]

RegisterAttester ==
    \E authority \in Signers, attester \in AttesterKeys :
        LET err == RegisterAttesterResult(authority, attester)
        IN  IF err # "Ok" THEN UNCHANGED vars
            ELSE /\ authority \in DOMAIN attester_rent =>
                        attester_rent[authority] < MaxDeposits
                 /\ attesters' = (attester :> AttesterInitialize(attester, clock)) @@ attesters
                 /\ registry' = [registry EXCEPT
                                   ![REGISTRY_SEED] = IncrementAttesterCount(@, clock)]
                 /\ attester_rent' = Moved(attester_rent, authority, 1)
                 /\ attester_payer' = IF authority \in DOMAIN attester_rent
                                   THEN (attester :> authority) @@ attester_payer
                                   ELSE attester_payer
                 /\ UNCHANGED <<clock, policies, used, log, rent, client_policies,
                                counters, token_accounts, protected, hashing,
                                probe, expiry>>

\* the DeregisterAttester context: accounts loaded, has_one = authority, the
\* is_registered constraint; the handler; close = authority
DeregisterAttesterResult(authority, attester) ==
    IF REGISTRY_SEED \notin DOMAIN registry THEN "AccountNotInitialized"
    ELSE IF attester \notin DOMAIN attesters THEN "AccountNotInitialized"
    ELSE IF registry[REGISTRY_SEED].authority # authority THEN "Unauthorized"
    ELSE IF ~attesters[attester].is_registered THEN "AttesterNotRegistered"
    ELSE IF registry[REGISTRY_SEED].total_attesters = 0 THEN "ArithmeticError"
    ELSE "Ok"

\* a deregistration that pays the rent back to whoever funded the account
DeregisterAttester_RefundsPayer ==
    \E authority \in Signers, attester \in AttesterKeys :
        LET err == DeregisterAttesterResult(authority, attester)
        IN  IF err # "Ok" THEN UNCHANGED vars
            ELSE /\ attesters' = [k \in DOMAIN attesters \ {attester} |-> attesters[k]]
                 /\ registry' = [registry EXCEPT
                                   ![REGISTRY_SEED] = DecrementAttesterCount(@, clock)]
                 /\ attester_rent' =
                        IF attester \in DOMAIN attester_payer
                        THEN Moved(attester_rent, attester_payer[attester], 0 - 1)
                        ELSE attester_rent
                 /\ attester_payer' = [k \in DOMAIN attester_payer \ {attester} |->
                                         attester_payer[k]]
                 /\ UNCHANGED <<clock, policies, used, log, rent, client_policies,
                                counters, token_accounts, protected, hashing,
                                probe, expiry>>

\* a deregistration that flags the attester account and leaves it in place
DeregisterAttester_KeepsAccount ==
    \E authority \in Signers, attester \in AttesterKeys :
        LET err == DeregisterAttesterResult(authority, attester)
        IN  IF err # "Ok" THEN UNCHANGED vars
            ELSE /\ attesters' = [attesters EXCEPT ![attester].is_registered = FALSE]
                 /\ registry' = [registry EXCEPT
                                   ![REGISTRY_SEED] = DecrementAttesterCount(@, clock)]
                 /\ UNCHANGED <<clock, policies, used, log, rent, attester_rent,
                                attester_payer, client_policies, counters,
                                token_accounts, protected, hashing, probe,
                                expiry>>

DeregisterAttester ==
    \E authority \in Signers, attester \in AttesterKeys :
        LET err == DeregisterAttesterResult(authority, attester)
        IN  IF err # "Ok" THEN UNCHANGED vars
            ELSE /\ attesters' = [k \in DOMAIN attesters \ {attester} |-> attesters[k]]
                 /\ registry' = [registry EXCEPT
                                   ![REGISTRY_SEED] = DecrementAttesterCount(@, clock)]
                 /\ attester_rent' = Moved(attester_rent, authority, 0 - 1)
                 /\ attester_payer' = [k \in DOMAIN attester_payer \ {attester} |->
                                         attester_payer[k]]
                 /\ UNCHANGED <<clock, policies, used, log, rent, client_policies,
                                counters, token_accounts, protected, hashing,
                                probe, expiry>>

\* the TransferAuthority context and PredicateRegistry::transfer_authority
TransferAuthorityResult(authority) ==
    IF REGISTRY_SEED \notin DOMAIN registry THEN "AccountNotInitialized"
    ELSE IF registry[REGISTRY_SEED].authority # authority THEN "Unauthorized"
    ELSE "Ok"

TransferAuthority ==
    \E authority \in Signers, new_authority \in Signers :
        LET err == TransferAuthorityResult(authority)
        IN  IF err # "Ok" THEN UNCHANGED vars
            ELSE /\ registry' = [registry EXCEPT
                                   ![REGISTRY_SEED] = [@ EXCEPT !.authority = new_authority,
                                                                !.updated_at = clock]]
                 /\ UNCHANGED <<clock, attesters, policies, used, log, rent,
                                attester_rent, attester_payer, client_policies,
                                counters, token_accounts, protected, hashing,
                                probe, expiry>>


\* ---------------------------------------------------------------- policies

\* the ProgramData account of each client program (bpf_loader_upgradeable):
\* discriminator 3, slot, Option tag, upgrade authority.  G1 is upgradeable by
\* U1, G2 has no upgrade authority, the account of G3 is one byte short and
\* the account of G4 carries another discriminator; G5 is upgradeable by U2
ProgramDataBytes(program) ==
    IF program = "G1"
    THEN <<3, 0, 0, 0>> \o Rep(8, 0) \o <<1>> \o ToBytes("U1")
    ELSE IF program = "G5"
    THEN <<3, 0, 0, 0>> \o Rep(8, 0) \o <<1>> \o ToBytes("U2")
    ELSE IF program = "G3"
    THEN <<3, 0, 0, 0>> \o Rep(8, 0) \o <<1>> \o Rep(PUBKEY_LEN - 1, KeyByte("U1"))
    ELSE IF program = "G4"
    THEN <<2, 0, 0, 0>> \o Rep(8, 0) \o <<1>> \o ToBytes("U1")
    ELSE <<3, 0, 0, 0>> \o Rep(8, 0) \o <<0>> \o Rep(PUBKEY_LEN, 0)

\* a check of the metadata that does not compare the authority with the signer
VerifyUpgradeAuthority_AnySigner(program_data_bytes, expected_authority) ==
    IF Len(program_data_bytes) < 45 THEN "InvalidProgramData"
    ELSE IF program_data_bytes[1] + 256 * program_data_bytes[2]
              + 65536 * program_data_bytes[3] + 16777216 * program_data_bytes[4] # 3
        THEN "InvalidProgramData"
    ELSE IF program_data_bytes[13] # 1 THEN "Unauthorized"
    ELSE "Ok"

\* verify_upgrade_authority
VerifyUpgradeAuthority(program_data_bytes, expected_authority) ==
    IF Len(program_data_bytes) < 45 THEN "InvalidProgramData"
    ELSE IF program_data_bytes[1] + 256 * program_data_bytes[2]
              + 65536 * program_data_bytes[3] + 16777216 * program_data_bytes[4] # 3
        THEN "InvalidProgramData"
    ELSE IF program_data_bytes[13] # 1 THEN "Unauthorized"
    ELSE IF Slice(program_data_bytes, 13, 45) # ToBytes(expected_authority)
        THEN "Unauthorized"
    ELSE "Ok"

\* PolicyAccount::initialize
PolicyInitialize(client_program, authority, policy_id, now) ==
    [client_program |-> client_program, authority |-> authority,
     policy_id |-> policy_id, set_at |-> now, updated_at |-> now]

\* PolicyAccount::update_policy_id
PolicyUpdate(p, policy_id, now) ==
    [p EXCEPT !.policy_id = policy_id, !.updated_at = now]

\* a set_policy_id that does not cap the length of the policy id
SetPolicyIdResult_NoCap(authority, client_program, policy_id) ==
    IF REGISTRY_SEED \notin DOMAIN registry THEN "AccountNotInitialized"
    ELSE IF client_program \in DOMAIN policies THEN "AccountAlreadyInUse"
    ELSE IF policy_id = <<>> THEN "InvalidPolicyId"
    ELSE VerifyUpgradeAuthority(ProgramDataBytes(client_program), authority)

\* the SetPolicyId context (policy account created by init) and set_policy_id
SetPolicyIdResult(authority, client_program, policy_id) ==
    IF REGISTRY_SEED \notin DOMAIN registry THEN "AccountNotInitialized"
    ELSE IF client_program \in DOMAIN policies THEN "AccountAlreadyInUse"
    ELSE IF policy_id = <<>> THEN "InvalidPolicyId"
    ELSE IF ~(Len(policy_id) <= 64) THEN "PolicyIdTooLong"
    ELSE VerifyUpgradeAuthority(ProgramDataBytes(client_program), authority)

SetPolicyIdOf(programs) ==
    \E authority \in Signers, client_program \in programs,
       policy_id \in PolicyInputs :
        LET err == SetPolicyIdResult(authority, client_program, policy_id)
        IN  IF err # "Ok" THEN UNCHANGED vars
            ELSE /\ policies' = (client_program :>
                                   PolicyInitialize(client_program, authority, policy_id, clock))
                                @@ policies
                 /\ registry' = [registry EXCEPT
                                   ![REGISTRY_SEED] = IncrementPolicyCount(@, clock)]
                 /\ UNCHANGED <<clock, attesters, used, log, rent, attester_rent,
                                attester_payer, client_policies, counters,
                                token_accounts, protected, hashing, probe,
                                expiry>>

SetPolicyId == SetPolicyIdOf(Programs)

\* the UpdatePolicyId context and update_policy_id
UpdatePolicyIdResult(authority, client_program, policy_id) ==
    IF REGISTRY_SEED \notin DOMAIN registry THEN "AccountNotInitialized"
    ELSE IF client_program \notin DOMAIN policies THEN "AccountNotInitialized"
    ELSE IF policies[client_program].client_program # client_program
        THEN "InvalidClientProgram"
    ELSE IF policy_id = <<>> THEN "InvalidPolicyId"
    ELSE IF ~(Len(policy_id) <= 64) THEN "PolicyIdTooLong"
    ELSE VerifyUpgradeAuthority(ProgramDataBytes(client_program), authority)

UpdatePolicyIdOf(programs) ==
    \E authority \in Signers, client_program \in programs,
       policy_id \in PolicyInputs :
        LET err == UpdatePolicyIdResult(authority, client_program, policy_id)
        IN  IF err # "Ok" THEN UNCHANGED vars
            ELSE /\ policies' = [policies EXCEPT
                                   ![client_program] = PolicyUpdate(@, policy_id, clock)]
                 /\ registry' = [registry EXCEPT ![REGISTRY_SEED].updated_at = clock]
                 /\ UNCHANGED <<clock, attesters, used, log, rent, attester_rent,
                                attester_payer, client_policies, counters,
                                token_accounts, protected, hashing, probe,
                                expiry>>

UpdatePolicyId == UpdatePolicyIdOf(Programs)

\* ------------------------------------------- policies of clients (per client)

\* the policy contents set_policy and update_policy are called with
ClientPolicyInputs ==
    {<<>>, <<80>>, <<80, 81>>, Rep(POLICY_LEN, 82), Rep(POLICY_LEN + 1, 82)}

\* self.policy = [0u8; 200]; self.policy[..policy.len()].copy_from_slice(policy)
PolicyBuffer(policy) ==
    [i \in 1..POLICY_LEN |-> IF i <= Len(policy) THEN policy[i] ELSE 0]

\* PolicyAccount::get_policy
GetPolicy(p) == Slice(p.policy, 0, p.policy_len)

\* the checks of PolicyAccount::initialize and PolicyAccount::update_policy
PolicyContentResult(policy) ==
    IF ~(Len(policy) <= POLICY_LEN) THEN "PolicyTooLong"
    ELSE IF policy = <<>> THEN "InvalidPolicy"
    ELSE "Ok"

\* PolicyAccount::initialize
ClientPolicyInitialize(client, policy, now) ==
    [client |-> client, policy |-> PolicyBuffer(policy), policy_len |-> Len(policy),
     set_at |-> now, updated_at |-> now]

\* an update that starts the account over
ClientPolicyUpdate_Reset(p, policy, now) ==
    [p EXCEPT !.policy = PolicyBuffer(policy), !.policy_len = Len(policy),
              !.set_at = now, !.updated_at = now]

\* an update that adds the new content to the stored one
ClientPolicyUpdate_Append(p, policy, now) ==
    [p EXCEPT !.policy = PolicyBuffer(Slice(GetPolicy(p) \o policy, 0,
                                            IF p.policy_len + Len(policy) <= POLICY_LEN
                                            THEN p.policy_len + Len(policy)
                                            ELSE POLICY_LEN)),
              !.policy_len = IF p.policy_len + Len(policy) <= POLICY_LEN
                             THEN p.policy_len + Len(policy) ELSE POLICY_LEN,
              !.updated_at = now]

\* PolicyAccount::update_policy
ClientPolicyUpdate(p, policy, now) ==
    [p EXCEPT !.policy = PolicyBuffer(policy), !.policy_len = Len(policy),
              !.updated_at = now]

\* the SetPolicy context: the registry, and the policy account of the client
\* created by init
SetPolicyAccountsResult(client) ==
    IF REGISTRY_SEED \notin DOMAIN registry THEN "AccountNotInitialized"
    ELSE IF client \in DOMAIN client_policies THEN "AccountAlreadyInUse"
    ELSE "Ok"

\* set_policy
SetPolicyResult(client, policy) ==
    IF SetPolicyAccountsResult(client) # "Ok" THEN SetPolicyAccountsResult(client)
    ELSE IF policy = <<>> THEN "InvalidPolicy"
    ELSE IF ~(Len(policy) <= POLICY_LEN) THEN "PolicyTooLong"
    ELSE PolicyContentResult(policy)

SetPolicyOf(inputs) ==
    \E client \in Signers, policy \in inputs :
        LET err == SetPolicyResult(client, policy)
        IN  IF err # "Ok" THEN UNCHANGED vars
            ELSE /\ client_policies' = (client :> ClientPolicyInitialize(client, policy, clock))
                                       @@ client_policies
                 /\ UNCHANGED <<clock, registry, attesters, policies, used, log,
                                rent, attester_rent, attester_payer, counters,
                                token_accounts, protected, hashing, probe,
                                expiry>>

SetPolicy == SetPolicyOf(ClientPolicyInputs)

\* the UpdatePolicy context: the registry, and the policy account of the client
UpdatePolicyAccountsResult(client) ==
    IF REGISTRY_SEED \notin DOMAIN registry THEN "AccountNotInitialized"
    ELSE IF client \notin DOMAIN client_policies THEN "AccountNotInitialized"
    ELSE "Ok"

\* update_policy
UpdatePolicyResult(client, policy) ==
    IF UpdatePolicyAccountsResult(client) # "Ok" THEN UpdatePolicyAccountsResult(client)
    ELSE IF policy = <<>> THEN "InvalidPolicy"
    ELSE IF ~(Len(policy) <= POLICY_LEN) THEN "PolicyTooLong"
    ELSE PolicyContentResult(policy)

UpdatePolicyOf(inputs) ==
    \E client \in Signers, policy \in inputs :
        LET err == UpdatePolicyResult(client, policy)
        IN  IF err # "Ok" THEN UNCHANGED vars
            ELSE /\ client_policies' =
                        [client_policies EXCEPT
                            ![client] = ClientPolicyUpdate(@, policy, clock)]
                 /\ UNCHANGED <<clock, registry, attesters, policies, used, log,
                                rent, attester_rent, attester_payer, counters,
                                token_accounts, protected, hashing, probe,
                                expiry>>

UpdatePolicy == UpdatePolicyOf(ClientPolicyInputs)

\* Task::get_policy: the policy buffer of a Task up to its first zero byte
TaskGetPolicy(policy) ==
    LET zeros == {i \in 1..POLICY_LEN : policy[i] = 0}
        end == IF zeros = {} THEN POLICY_LEN
               ELSE (CHOOSE i \in zeros : \A j \in zeros : i <= j) - 1
    IN  Slice(policy, 0, end)

\* --------------------------------------------------- validate_attestation

\* a context whose used-uuid account is not create-or-fail
ValidateAccountsResult_NoInit(c) ==
    IF REGISTRY_SEED \notin DOMAIN registry THEN "AccountNotInitialized"
    ELSE IF c.attestation.attester \notin DOMAIN attesters THEN "AccountNotInitialized"
    ELSE IF c.statement.target \notin DOMAIN policies THEN "AccountNotInitialized"
    ELSE IF ~attesters[c.attestation.attester].is_registered
        THEN "AttesterNotRegisteredForValidation"
    ELSE IF policies[c.statement.target].client_program # c.statement.target
        THEN "InvalidClientProgram"
    ELSE "Ok"

\* a context whose used-uuid account is a slot of its creator
ValidateAccountsResult_PerSigner(c) ==
    IF REGISTRY_SEED \notin DOMAIN registry THEN "AccountNotInitialized"
    ELSE IF c.attestation.attester \notin DOMAIN attesters THEN "AccountNotInitialized"
    ELSE IF c.statement.target \notin DOMAIN policies THEN "AccountNotInitialized"
    ELSE IF c.attestation.uuid \in DOMAIN used
            /\ used[c.attestation.uuid].validator = c.signer
        THEN "AccountAlreadyInUse"
    ELSE IF ~attesters[c.attestation.attester].is_registered
        THEN "AttesterNotRegisteredForValidation"
    ELSE IF policies[c.statement.target].client_program # c.statement.target
        THEN "InvalidClientProgram"
    ELSE "Ok"

\* the ValidateAttestation context: accounts loaded in order, the used-uuid
\* account created (init), then the constraints of the loaded accounts
ValidateAccountsResult(c) ==
    IF REGISTRY_SEED \notin DOMAIN registry THEN "AccountNotInitialized"
    ELSE IF c.attestation.attester \notin DOMAIN attesters THEN "AccountNotInitialized"
    ELSE IF c.statement.target \notin DOMAIN policies THEN "AccountNotInitialized"
    ELSE IF c.attestation.uuid \in DOMAIN used THEN "AccountAlreadyInUse"
    ELSE IF ~attesters[c.attestation.attester].is_registered
        THEN "AttesterNotRegisteredForValidation"
    ELSE IF policies[c.statement.target].client_program # c.statement.target
        THEN "InvalidClientProgram"
    ELSE "Ok"

\* an expiry check that excludes the boundary
NotExpired_Strict(now, expiration) == now < expiration + CLOCK_DRIFT_BUFFER

\* current_timestamp <= expiration + CLOCK_DRIFT_BUFFER
NotExpired(now, expiration) == now <= expiration + CLOCK_DRIFT_BUFFER

\* a handler that does not compare the two uuids
ValidateChecksResult_NoUuid(c, now) ==
    LET statement == c.statement
        attestation == c.attestation
        attester_account == attesters[attestation.attester]
        policy_account == policies[statement.target]
    IN
    IF Len(attestation.signature) # SIG_LEN THEN "InvalidSignature"
    ELSE IF ~(statement.policy_id # <<>> /\ policy_account.policy_id # <<>>)
        THEN "InvalidPolicyId"
    ELSE IF statement.expiration # attestation.expiration THEN "ExpirationMismatch"
    ELSE IF ~(now <= attestation.expiration + CLOCK_DRIFT_BUFFER) THEN "AttestationExpired"
    ELSE IF ~(now <= statement.expiration + CLOCK_DRIFT_BUFFER) THEN "StatementExpired"
    ELSE IF statement.policy_id # policy_account.policy_id THEN "PolicyIdMismatch"
    ELSE IF c.attester_key # attester_account.attester THEN "WrongAttester"
    ELSE IF attestation.attester # attester_account.attester THEN "WrongAttester"
    ELSE IF ~attester_account.is_registered THEN "AttesterNotRegisteredForValidation"
    ELSE VerifyEd25519Signature(attestation.signature,
                                ToBytes(attestation.attester),
                                HashStatementSafe(statement, c.signer),
                                c.tx.ixs, c.tx.cur)

\* a handler that does not compare the statement's policy with the stored one
ValidateChecksResult_NoPolicy(c, now) ==
    LET statement == c.statement
        attestation == c.attestation
        attester_account == attesters[attestation.attester]
        policy_account == policies[statement.target]
    IN
    IF Len(attestation.signature) # SIG_LEN THEN "InvalidSignature"
    ELSE IF ~(statement.policy_id # <<>> /\ policy_account.policy_id # <<>>)
        THEN "InvalidPolicyId"
    ELSE IF statement.uuid # attestation.uuid THEN "StatementIdMismatch"
    ELSE IF statement.expiration # attestation.expiration THEN "ExpirationMismatch"
    ELSE IF ~NotExpired(now, attestation.expiration) THEN "AttestationExpired"
    ELSE IF ~NotExpired(now, statement.expiration) THEN "StatementExpired"
    ELSE IF c.attester_key # attester_account.attester THEN "WrongAttester"
    ELSE IF attestation.attester # attester_account.attester THEN "WrongAttester"
    ELSE IF ~attester_account.is_registered THEN "AttesterNotRegisteredForValidation"
    ELSE VerifyEd25519Signature(attestation.signature,
                                ToBytes(attestation.attester),
                                HashStatementSafe(statement, c.signer),
                                c.tx.ixs, c.tx.cur)

\* a handler that compares the policy before it looks at the expirations
ValidateChecksResult_PolicyFirst(c, now) ==
    LET statement == c.statement
        attestation == c.attestation
        attester_account == attesters[attestation.attester]
        policy_account == policies[statement.target]
    IN
    IF Len(attestation.signature) # SIG_LEN THEN "InvalidSignature"
    ELSE IF ~(statement.policy_id # <<>> /\ policy_account.policy_id # <<>>)
        THEN "InvalidPolicyId"
    ELSE IF statement.policy_id # policy_account.policy_id THEN "PolicyIdMismatch"
    ELSE IF statement.uuid # attestation.uuid THEN "StatementIdMismatch"
    ELSE IF statement.expiration # attestation.expiration THEN "ExpirationMismatch"
    ELSE IF ~NotExpired(now, attestation.expiration) THEN "AttestationExpired"
    ELSE IF ~NotExpired(now, statement.expiration) THEN "StatementExpired"
    ELSE IF c.attester_key # attester_account.attester THEN "WrongAttester"
    ELSE IF attestation.attester # attester_account.attester THEN "WrongAttester"
    ELSE IF ~attester_account.is_registered THEN "AttesterNotRegisteredForValidation"
    ELSE VerifyEd25519Signature(attestation.signature,
                                ToBytes(attestation.attester),
                                HashStatementSafe(statement, c.signer),
                                c.tx.ixs, c.tx.cur)

\* the checks of the validate_attestation handler, in its order
ValidateChecksResult(c, now) ==
    LET statement == c.statement
        attestation == c.attestation
        attester_account == attesters[attestation.attester]
        policy_account == policies[statement.target]
    IN
    IF Len(attestation.signature) # SIG_LEN THEN "InvalidSignature"
    ELSE IF ~(statement.policy_id # <<>> /\ policy_account.policy_id # <<>>)
        THEN "InvalidPolicyId"
    ELSE IF statement.uuid # attestation.uuid THEN "StatementIdMismatch"
    ELSE IF statement.expiration # attestation.expiration THEN "ExpirationMismatch"
    ELSE IF ~NotExpired(now, attestation.expiration) THEN "AttestationExpired"
    ELSE IF ~NotExpired(now, statement.expiration) THEN "StatementExpired"
    ELSE IF statement.policy_id # policy_account.policy_id THEN "PolicyIdMismatch"
    ELSE IF c.attester_key # attester_account.attester THEN "WrongAttester"
    ELSE IF attestation.attester # attester_account.attester THEN "WrongAttester"
    ELSE IF ~attester_account.is_registered THEN "AttesterNotRegisteredForValidation"
    ELSE VerifyEd25519Signature(attestation.signature,
                                ToBytes(attestation.attester),
                                HashStatementSafe(statement, c.signer),
                                c.tx.ixs, c.tx.cur)

ValidateResult(c) ==
    LET acc == ValidateAccountsResult(c)
    IN  IF acc # "Ok" THEN acc ELSE ValidateChecksResult(c, clock)

\* a record that names the msg_sender of the statement as its creator
UsedUuidRecord_MsgSender(c, now) ==
    [uuid |-> c.statement.uuid, used_at |-> now,
     expires_at |-> c.statement.expiration, validator |-> c.statement.msg_sender]

\* the UsedUuidAccount the handler fills in
UsedUuidRecord(c, now) ==
    [uuid |-> c.statement.uuid, used_at |-> now,
     expires_at |-> c.statement.expiration, validator |-> c.signer]

\* the UuidMarkedUsed event
UuidMarkedUsed(c, now) ==
    [uuid |-> c.statement.uuid, validator |-> c.signer,
     expires_at |-> c.statement.expiration, timestamp |-> now]

\* the StatementValidated event
StatementValidated(c, now) ==
    [msg_sender |-> c.statement.msg_sender, target |-> c.statement.target,
     attester |-> c.attestation.attester, msg_value |-> c.statement.msg_value,
     policy_id |-> c.statement.policy_id, uuid |-> c.statement.uuid,
     expiration |-> c.statement.expiration, timestamp |-> now]


\* --------------------------------------------- the calls the model submits

Other(x, S) == CHOOSE y \in S : y # x

\* what the attestors signed off-chain: a statement for a submitter
Issued ==
    {[attester |-> a, submitter |-> v,
      statement |-> [uuid |-> u, msg_sender |-> "U1", target |-> "G1",
                     msg_value |-> 0, encoded_sig_and_args |-> <<7>>,
                     policy_id |-> <<80>>, expiration |-> e]] :
        a \in {"A1"}, v \in Signers, u \in {1}, e \in Exps}
    \cup
    {[attester |-> "A2", submitter |-> "U2",
      statement |-> [uuid |-> 2, msg_sender |-> "U2", target |-> "G1",
                     msg_value |-> 0, encoded_sig_and_args |-> <<7>>,
                     policy_id |-> <<80>>, expiration |-> MaxExp]]}

\* the signature an attestor issued
IssuedSignature(it) ==
    Sign(it.attester, HashStatementSafe(it.statement, it.submitter))

\* ways a submitted call departs from what was signed
Tweaks ==
    {"st_uuid", "att_uuid", "st_exp", "st_policy_empty", "st_policy_other",
     "st_sender", "st_target", "attester_key", "signer", "att_sig",
     "tx_first", "tx_wrong_program", "tx_not_adjacent", "tx_accounts",
     "tx_decoy"}

\* the validate_attestation instruction itself, as the transaction lists it
SelfIx == Instruction(REGISTRY_SEED, <<>>, <<>>)

\* the transaction around the call: its instructions and the index of the call
BuildTx(it, tw, signer) ==
    LET sig == IssuedSignature(it)
        pk == ToBytes(it.attester)
        msg == HashStatementSafe(it.statement, it.submitter)
        native == Instruction(ED25519_PROGRAM, <<>>, Ed25519Data(sig, pk, msg))
    IN  IF "tx_first" \in tw THEN [cur |-> 0, ixs |-> <<SelfIx, native>>]
        ELSE IF "tx_wrong_program" \in tw
            THEN [cur |-> 2,
                  ixs |-> <<native,
                            Instruction(OTHER_PROGRAM, <<>>, Ed25519Data(sig, pk, msg)),
                            SelfIx>>]
        ELSE IF "tx_not_adjacent" \in tw
            THEN [cur |-> 2,
                  ixs |-> <<native, Instruction(OTHER_PROGRAM, <<>>, <<>>), SelfIx>>]
        ELSE IF "tx_accounts" \in tw
            THEN [cur |-> 1,
                  ixs |-> <<Instruction(ED25519_PROGRAM, <<signer>>,
                                        Ed25519Data(sig, pk, msg)), SelfIx>>]
        ELSE IF "tx_decoy" \in tw
            THEN [cur |-> 1,
                  ixs |-> <<Instruction(ED25519_PROGRAM, <<>>,
                               Ed25519DataWithDecoy(Sign(signer, msg), ToBytes(signer),
                                                    msg, sig, pk, msg)), SelfIx>>]
        ELSE [cur |-> 1, ixs |-> <<native, SelfIx>>]

BuildCall(it, tw) ==
    LET st == it.statement
        signer == IF "signer" \in tw THEN Other(it.submitter, Signers) ELSE it.submitter
    IN  [statement |->
            [uuid |-> IF "st_uuid" \in tw THEN Other(st.uuid, Uuids) ELSE st.uuid,
             msg_sender |-> IF "st_sender" \in tw THEN "U2" ELSE st.msg_sender,
             target |-> IF "st_target" \in tw THEN "G2" ELSE st.target,
             msg_value |-> st.msg_value,
             encoded_sig_and_args |-> st.encoded_sig_and_args,
             policy_id |-> IF "st_policy_empty" \in tw THEN <<>>
                           ELSE IF "st_policy_other" \in tw THEN <<81>>
                           ELSE st.policy_id,
             expiration |-> IF "st_exp" \in tw THEN Other(st.expiration, Exps)
                            ELSE st.expiration],
         attester_key |-> IF "attester_key" \in tw THEN Other(it.attester, AttesterKeys)
                          ELSE it.attester,
         attestation |->
            [uuid |-> IF "att_uuid" \in tw THEN Other(st.uuid, Uuids) ELSE st.uuid,
             attester |-> it.attester,
             signature |-> IF "att_sig" \in tw THEN JunkSig ELSE IssuedSignature(it),
             expiration |-> st.expiration],
         signer |-> signer,
         tx |-> BuildTx(it, tw, signer)]

\* a transaction in which every call of the native program verifies a genuine
\* signature, one an attestor issued or one made with a submitter's own key
\* (any other transaction fails as a whole, whatever the call returns)
GenuineSignature(t) ==
    \/ \E it \in Issued :
          /\ t.pk = ToBytes(it.attester)
          /\ t.msg = HashStatementSafe(it.statement, it.submitter)
          /\ t.sig = IssuedSignature(it)
    \/ \E k \in Signers : t.pk = ToBytes(k) /\ t.sig = Sign(k, t.msg)

TxRan(tx) ==
    \A i \in 1..Len(tx.ixs) :
        tx.ixs[i].program_id = ED25519_PROGRAM =>
            /\ NativeWellFormed(tx.ixs, i)
            /\ \A t \in NativeVerified(tx.ixs, i) : GenuineSignature(t)

\* calls departing from a signed request in at most one way, or in one way
\* besides a uuid mismatch
TweakSets ==
    {{}} \cup {{t} : t \in Tweaks} \cup {{"st_uuid", t} : t \in Tweaks}

ValidateCalls ==
    {c \in {BuildCall(it, tw) : it \in Issued, tw \in TweakSets} : TxRan(c.tx)}

\* a validation that keeps the used-uuid account its context created even
\* when a check of the handler fails
ValidateAttestation_KeepsInit ==
    \E c \in ValidateCalls :
        LET acc == ValidateAccountsResult(c)
        IN  IF acc # "Ok" THEN UNCHANGED vars
            ELSE /\ used' = (c.attestation.uuid :> UsedUuidRecord(c, clock)) @@ used
                 /\ log' = IF ValidateChecksResult(c, clock) = "Ok"
                           THEN log \cup {UuidMarkedUsed(c, clock)}
                           ELSE log
                 /\ rent' = [rent EXCEPT ![c.signer] = @ + 1]
                 /\ UNCHANGED <<clock, registry, attesters, policies,
                                attester_rent, attester_payer, client_policies,
                                counters, token_accounts, protected, hashing,
                                probe, expiry>>

ValidateAttestation ==
    \E c \in ValidateCalls :
        LET err == ValidateResult(c)
        IN  IF err # "Ok" THEN UNCHANGED vars
            ELSE /\ used' = (c.attestation.uuid :> UsedUuidRecord(c, clock)) @@ used
                 /\ log' = log \cup {UuidMarkedUsed(c, clock)}
                 /\ rent' = [rent EXCEPT ![c.signer] = @ + 1]
                 /\ UNCHANGED <<clock, registry, attesters, policies,
                                attester_rent, attester_payer, client_policies,
                                counters, token_accounts, protected, hashing,
                                probe, expiry>>

\* --------------------------------------------------- cleanup_expired_uuid

\* a cleanup that forgets the drift buffer
CleanupEligible_NoBuffer(now, expires_at) == now > expires_at

\* a cleanup that already lets go at the boundary
CleanupEligible_Inclusive(now, expires_at) == now >= expires_at + CLOCK_DRIFT_BUFFER

\* current_timestamp > expires_at + CLOCK_DRIFT_BUFFER
CleanupEligible(now, expires_at) == now > expires_at + CLOCK_DRIFT_BUFFER

\* a cleanup that closes a record whatever the time
CleanupResult_NoExpiry(uuid, signer_recipient, now) ==
    IF uuid \notin DOMAIN used THEN "AccountNotInitialized"
    ELSE IF signer_recipient # used[uuid].validator THEN "Unauthorized"
    ELSE "Ok"

\* a context that lets the caller name any recipient of the refund
CleanupResult_AnyRecipient(uuid, signer_recipient, now) ==
    IF uuid \notin DOMAIN used THEN "AccountNotInitialized"
    ELSE IF ~CleanupEligible(now, used[uuid].expires_at) THEN "StatementNotExpired"
    ELSE "Ok"

\* the CleanupExpiredUuid context and the cleanup_expired_uuid handler

CleanupResult(uuid, signer_recipient, now) ==
    IF uuid \notin DOMAIN used THEN "AccountNotInitialized"
    ELSE IF signer_recipient # used[uuid].validator THEN "Unauthorized"
    ELSE IF ~CleanupEligible(now, used[uuid].expires_at) THEN "StatementNotExpired"
    ELSE "Ok"

CleanupExpiredUuid ==
    \E uuid \in Uuids, signer_recipient \in Signers :
        LET err == CleanupResult(uuid, signer_recipient, clock)
        IN  IF err # "Ok" THEN UNCHANGED vars
            ELSE /\ used' = [u \in DOMAIN used \ {uuid} |-> used[u]]
                 /\ rent' = [rent EXCEPT ![signer_recipient] = @ - 1]
                 /\ UNCHANGED <<clock, registry, attesters, policies, log,
                                attester_rent, attester_payer, client_policies,
                                counters, token_accounts, protected, hashing,
                                probe, expiry>>

\* ------------------------------------------------------------ specification

Next ==
    \/ Tick
    \/ Initialize
    \/ RegisterAttester
    \/ DeregisterAttester
    \/ TransferAuthority
    \/ SetPolicyId
    \/ UpdatePolicyId
    \/ ValidateAttestation
    \/ CleanupExpiredUuid

Spec == Init /\ [][Next]_vars

\* ------------------------------------- the signature proof verifier on its own

\* triples a caller may expect: what an attestor issued
ExpectedTriples ==
    {[sig |-> IssuedSignature(it), pk |-> ToBytes(it.attester),
      msg |-> HashStatementSafe(it.statement, it.submitter)] :
        it \in {x \in Issued : x.submitter = "U1"}}

\* a triple the submitter made with a key of their own
OwnTriple(t) ==
    [sig |-> Sign("U2", t.msg), pk |-> ToBytes("U2"), msg |-> t.msg]

\* one-entry data whose three regions are read from the instruction at index ix
Ed25519DataFrom(ix, sig, pk, msg) ==
    Ed25519Header(1, HEADER_LEN, ix, HEADER_LEN + SIG_LEN, ix,
                  HEADER_LEN + SIG_LEN + PUBKEY_LEN, Len(msg), ix)
        \o sig \o pk \o msg

\* data with two signature entries, each with its own regions
Ed25519DataTwo(t1, t2) ==
    LET base == 2 + 14 + 14
        span == SIG_LEN + PUBKEY_LEN + HASH_LEN
    IN  <<2, 0>>
        \o Ed25519Offsets(base, INSTRUCTION_INDEX_CURRENT,
                          base + SIG_LEN, INSTRUCTION_INDEX_CURRENT,
                          base + SIG_LEN + PUBKEY_LEN, Len(t1.msg),
                          INSTRUCTION_INDEX_CURRENT)
        \o Ed25519Offsets(base + span, INSTRUCTION_INDEX_CURRENT,
                          base + span + SIG_LEN, INSTRUCTION_INDEX_CURRENT,
                          base + span + SIG_LEN + PUBKEY_LEN, Len(t2.msg),
                          INSTRUCTION_INDEX_CURRENT)
        \o t1.sig \o t1.pk \o t1.msg \o t2.sig \o t2.pk \o t2.msg

\* data whose public key region lies inside the header
Ed25519DataLowOffset(t) ==
    Ed25519Header(1, HEADER_LEN, INSTRUCTION_INDEX_CURRENT,
                  0, INSTRUCTION_INDEX_CURRENT,
                  HEADER_LEN + SIG_LEN + PUBKEY_LEN, Len(t.msg),
                  INSTRUCTION_INDEX_CURRENT)
        \o t.sig \o t.pk \o t.msg

\* the transactions the verifier is tried on, for an expected triple t
ProbeTxs(t) ==
    LET o == OwnTriple(t)
        good == Instruction(ED25519_PROGRAM, <<>>, Ed25519Data(t.sig, t.pk, t.msg))
        own == Instruction(ED25519_PROGRAM, <<>>, Ed25519Data(o.sig, o.pk, o.msg))
        other == Instruction(OTHER_PROGRAM, <<>>, Ed25519Data(t.sig, t.pk, t.msg))
    IN  {[cur |-> 1, ixs |-> <<good, SelfIx>>],
         [cur |-> 0, ixs |-> <<SelfIx, good>>],
         [cur |-> 2, ixs |-> <<good, other, SelfIx>>],
         [cur |-> 2, ixs |-> <<good, own, SelfIx>>],
         [cur |-> 1, ixs |-> <<own, SelfIx>>],
         [cur |-> 1, ixs |-> <<Instruction(ED25519_PROGRAM, <<"U2">>,
                                  Ed25519Data(t.sig, t.pk, t.msg)), SelfIx>>],
         [cur |-> 1, ixs |-> <<Instruction(ED25519_PROGRAM, <<>>,
                                  Ed25519DataWithDecoy(o.sig, o.pk, o.msg,
                                                       t.sig, t.pk, t.msg)), SelfIx>>],
         [cur |-> 2, ixs |-> <<own,
                               Instruction(ED25519_PROGRAM, <<>>,
                                  Ed25519DataFrom(0, t.sig, t.pk, t.msg)), SelfIx>>],
         [cur |-> 1, ixs |-> <<Instruction(ED25519_PROGRAM, <<>>,
                                  Ed25519DataTwo(t, o)), SelfIx>>],
         [cur |-> 1, ixs |-> <<Instruction(ED25519_PROGRAM, <<>>,
                                  Ed25519DataTwo(o, t)), SelfIx>>],
         [cur |-> 1, ixs |-> <<Instruction(ED25519_PROGRAM, <<>>,
                                  Ed25519DataLowOffset(t)), SelfIx>>],
         [cur |-> 1, ixs |-> <<Instruction(ED25519_PROGRAM, <<>>,
                                  Ed25519Data(t.sig, t.pk, SubSeq(t.msg, 1, HASH_LEN - 1))),
                               SelfIx>>],
         [cur |-> 1, ixs |-> <<Instruction(ED25519_PROGRAM, <<>>,
                                  SubSeq(Ed25519Data(t.sig, t.pk, t.msg), 1,
                                         HEADER_LEN + SIG_LEN + PUBKEY_LEN)), SelfIx>>],
         [cur |-> 1, ixs |-> <<Instruction(ED25519_PROGRAM, <<>>, <<1, 0>>), SelfIx>>]}

InitVerifier ==
    /\ clock = CLOCK_DRIFT_BUFFER
    /\ registry = << >>
    /\ attesters = << >>
    /\ policies = << >>
    /\ used = << >>
    /\ log = {}
    /\ rent = [s \in Signers |-> 0]
    /\ attester_rent = << >>
    /\ attester_payer = << >>
    /\ client_policies = << >>
    /\ counters = << >>
    /\ token_accounts = << >>
    /\ protected = << >>
    /\ expiry = IdleExpiry
    /\ hashing = IdleHashing
    /\ probe \in {[signature |-> t.sig, pubkey |-> t.pk, message |-> t.msg,
                   expected |-> t, tx |-> tx, tampered |-> FALSE,
                   result |-> "none"] :
                    t \in ExpectedTriples, tx \in UNION {ProbeTxs(u) : u \in ExpectedTriples}}

\* ways one byte is changed
Deltas == {1, 128}

\* one byte of the expected signature, public key or digest is changed, the
\* transaction left as it is
Tamper ==
    /\ probe.result = "none"
    /\ ~probe.tampered
    /\ \E d \in Deltas :
          \/ \E i \in 1..SIG_LEN :
                probe' = [probe EXCEPT !.signature[i] = (@ + d) % 256,
                                       !.tampered = TRUE]
          \/ \E i \in 1..PUBKEY_LEN :
                probe' = [probe EXCEPT !.pubkey[i] = (@ + d) % 256,
                                       !.tampered = TRUE]
          \/ \E i \in 1..HASH_LEN :
                probe' = [probe EXCEPT !.message[i] = (@ + d) % 256,
                                       !.tampered = TRUE]
    /\ UNCHANGED <<clock, registry, attesters, policies, used, log, rent,
                   attester_rent, attester_payer, client_policies, counters,
                   token_accounts, protected, hashing, expiry>>

\* verify_ed25519_signature called on the inputs
Verify ==
    /\ probe.result = "none"
    /\ probe' = [probe EXCEPT !.result =
                    VerifyEd25519Signature(probe.signature, probe.pubkey,
                                           probe.message, probe.tx.ixs, probe.tx.cur)]
    /\ UNCHANGED <<clock, registry, attesters, policies, used, log, rent,
                   attester_rent, attester_payer, client_policies, counters,
                   token_accounts, protected, hashing, expiry>>

NextVerifier ==
    \/ Tamper
    \/ Verify

SpecVerifier == InitVerifier /\ [][NextVerifier]_vars

\* ------------------------------- the verifier on the data of the instruction before

\* the instruction before, described by what departs from the usual layout:
\* the header fields, where the three regions start (at: where the region
\* is, next: one byte later, header: inside the header, zero, max), how far
\* the regions are moved back (shift), and how many bytes of the data are
\* kept (-1: all, -2: all and one more)
UsualLayout ==
    [num |-> 1, shift |-> 0, sig |-> "at", sig_ix |-> INSTRUCTION_INDEX_CURRENT,
     pk |-> "at", pk_ix |-> INSTRUCTION_INDEX_CURRENT, msg |-> "at",
     msg_size |-> HASH_LEN, msg_ix |-> INSTRUCTION_INDEX_CURRENT, keep |-> 0 - 1,
     program |-> ED25519_PROGRAM, accounts |-> <<>>]

LayoutChanges ==
    {<<"num", n>> : n \in {0, 1, 2}}
    \cup {<<"shift", 1>>}
    \cup {<<f, w>> : f \in {"sig", "pk", "msg"}, w \in {"next", "header", "zero", "max"}}
    \cup {<<f, 0>> : f \in {"sig_ix", "pk_ix", "msg_ix"}}
    \cup {<<"msg_size", n>> : n \in {0, HASH_LEN - 1, HASH_LEN + 1, 65535}}
    \cup {<<"keep", n>> : n \in {0 - 2, 0, 1, HEADER_LEN - 1, HEADER_LEN,
                                 HEADER_LEN + 1, HEADER_LEN + SIG_LEN - 1,
                                 HEADER_LEN + SIG_LEN,
                                 HEADER_LEN + SIG_LEN + PUBKEY_LEN - 1,
                                 HEADER_LEN + SIG_LEN + PUBKEY_LEN,
                                 HEADER_LEN + SIG_LEN + PUBKEY_LEN + HASH_LEN - 1}}
    \cup {<<"program", OTHER_PROGRAM>>}
    \cup {<<"accounts", <<"U2">> >>}

Changed(f, ch) == [f EXCEPT ![ch[1]] = ch[2]]

\* the layouts that depart from the usual one in at most two ways
Layouts == {Changed(Changed(UsualLayout, a), b) : a \in LayoutChanges, b \in LayoutChanges}

LayoutOffset(where, at) ==
    CASE where = "at" -> at
      [] where = "next" -> at + 1
      [] where = "header" -> HEADER_LEN - 1
      [] where = "zero" -> 0
      [] where = "max" -> 65535

\* the instruction of a layout, for the triple t
LayoutInstruction(f, t) ==
    LET at == HEADER_LEN + f.shift
        full == Ed25519Header(f.num, LayoutOffset(f.sig, at), f.sig_ix,
                              LayoutOffset(f.pk, at + SIG_LEN), f.pk_ix,
                              LayoutOffset(f.msg, at + SIG_LEN + PUBKEY_LEN),
                              f.msg_size, f.msg_ix)
                    \o Rep(f.shift, 0) \o t.sig \o t.pk \o t.msg
        data == IF f.keep = 0 - 1 THEN full
                ELSE IF f.keep = 0 - 2 THEN full \o <<0>>
                ELSE SubSeq(full, 1, f.keep)
    IN  Instruction(f.program, f.accounts, data)

\* the indices read by a verifier that slices the message region without
\* checking it against the length of the data
VerifyInstructionReads_MsgUnchecked(ed25519_ix) ==
    LET ix_data == ed25519_ix.data
    IN
    IF ed25519_ix.program_id # ED25519_PROGRAM THEN {}
    ELSE IF ed25519_ix.accounts # <<>> THEN {}
    ELSE IF ~(Len(ix_data) >= HEADER_LEN) THEN {}
    ELSE IF ix_data[1] # 1 THEN {0}
    ELSE
    LET sig_offset == U16FromLe(ix_data[3], ix_data[4])
        sig_ix_idx == U16FromLe(ix_data[5], ix_data[6])
        pubkey_offset == U16FromLe(ix_data[7], ix_data[8])
        pubkey_ix_idx == U16FromLe(ix_data[9], ix_data[10])
        msg_offset == U16FromLe(ix_data[11], ix_data[12])
        msg_size == U16FromLe(ix_data[13], ix_data[14])
        msg_ix_idx == U16FromLe(ix_data[15], ix_data[16])
        header == {0} \cup 2..(HEADER_LEN - 1)
    IN
    IF ~(sig_ix_idx = INSTRUCTION_INDEX_CURRENT
            /\ pubkey_ix_idx = INSTRUCTION_INDEX_CURRENT
            /\ msg_ix_idx = INSTRUCTION_INDEX_CURRENT) THEN header
    ELSE IF ~(sig_offset >= HEADER_LEN
            /\ pubkey_offset >= HEADER_LEN
            /\ msg_offset >= HEADER_LEN) THEN header
    ELSE IF ~(Len(ix_data) >= sig_offset + SIG_LEN) THEN header
    ELSE IF ~(Len(ix_data) >= pubkey_offset + PUBKEY_LEN) THEN header
    ELSE header \cup sig_offset..(sig_offset + SIG_LEN - 1)
                \cup pubkey_offset..(pubkey_offset + PUBKEY_LEN - 1)
                \cup msg_offset..(msg_offset + msg_size - 1)

\* the indices of ix_data (from 0) that verify_ed25519_signature reads: byte 0
\* and bytes 2 to 15 of the header, then the three regions it slices
VerifyInstructionReads(ed25519_ix) ==
    LET ix_data == ed25519_ix.data
    IN
    IF ed25519_ix.program_id # ED25519_PROGRAM THEN {}
    ELSE IF ed25519_ix.accounts # <<>> THEN {}
    ELSE IF ~(Len(ix_data) >= HEADER_LEN) THEN {}
    ELSE IF ix_data[1] # 1 THEN {0}
    ELSE
    LET sig_offset == U16FromLe(ix_data[3], ix_data[4])
        sig_ix_idx == U16FromLe(ix_data[5], ix_data[6])
        pubkey_offset == U16FromLe(ix_data[7], ix_data[8])
        pubkey_ix_idx == U16FromLe(ix_data[9], ix_data[10])
        msg_offset == U16FromLe(ix_data[11], ix_data[12])
        msg_size == U16FromLe(ix_data[13], ix_data[14])
        msg_ix_idx == U16FromLe(ix_data[15], ix_data[16])
        header == {0} \cup 2..(HEADER_LEN - 1)
    IN
    IF ~(sig_ix_idx = INSTRUCTION_INDEX_CURRENT
            /\ pubkey_ix_idx = INSTRUCTION_INDEX_CURRENT
            /\ msg_ix_idx = INSTRUCTION_INDEX_CURRENT) THEN header
    ELSE IF ~(sig_offset >= HEADER_LEN
            /\ pubkey_offset >= HEADER_LEN
            /\ msg_offset >= HEADER_LEN) THEN header
    ELSE IF ~(Len(ix_data) >= sig_offset + SIG_LEN) THEN header
    ELSE IF ~(Len(ix_data) >= pubkey_offset + PUBKEY_LEN) THEN header
    ELSE IF ~(Len(ix_data) >= msg_offset + msg_size) THEN header
    ELSE IF msg_size # HASH_LEN THEN header
    ELSE header \cup sig_offset..(sig_offset + SIG_LEN - 1)
                \cup pubkey_offset..(pubkey_offset + PUBKEY_LEN - 1)
                \cup msg_offset..(msg_offset + msg_size - 1)

InitProofData ==
    /\ clock = CLOCK_DRIFT_BUFFER
    /\ registry = << >>
    /\ attesters = << >>
    /\ policies = << >>
    /\ used = << >>
    /\ log = {}
    /\ rent = [s \in Signers |-> 0]
    /\ attester_rent = << >>
    /\ attester_payer = << >>
    /\ client_policies = << >>
    /\ counters = << >>
    /\ token_accounts = << >>
    /\ protected = << >>
    /\ expiry = IdleExpiry
    /\ hashing = IdleHashing
    /\ probe \in {[signature |-> t.sig, pubkey |-> t.pk, message |-> t.msg,
                   expected |-> t, tx |-> tx, tampered |-> FALSE,
                   result |-> "none"] :
                    t \in ExpectedTriples,
                    tx \in UNION {ProbeTxs(u) : u \in ExpectedTriples}
                           \cup {[cur |-> 1, ixs |-> <<LayoutInstruction(f, u), SelfIx>>] :
                                    f \in Layouts, u \in ExpectedTriples}}

NextProofData == Verify

SpecProofData == InitProofData /\ [][NextProofData]_vars

\* ------------------------------------------------------ the counter program

\* the id of the counter program (declare_id!); whoever holds its keypair can
\* sign with it
COUNTER_PROGRAM == "G1"

\* encode_increment_signature: b"increment()", kept to its first byte and its
\* parentheses so that the message of a statement stays within what the
\* idealised hash tells apart
IncrementSig == <<105, 40, 41>>

\* the principals that call the counter program
CounterOwners == Signers \cup {COUNTER_PROGRAM}

\* CounterAccount::initialize
CounterAccountInitialize(owner, predicate_registry, now) ==
    [owner |-> owner, value |-> 0, predicate_registry |-> predicate_registry,
     created_at |-> now, updated_at |-> now]

\* CounterAccount::increment (u64 checked_add)
CounterIncrement(counter, now) ==
    [counter EXCEPT !.value = @ + 1, !.updated_at = now]

\* the Initialize context of the counter: the registry and the policy account
\* at seeds ("policy", owner) are loaded, the counter account is created
CounterInitializeResult(owner) ==
    IF REGISTRY_SEED \notin DOMAIN registry THEN "AccountNotInitialized"
    ELSE IF owner \notin DOMAIN policies THEN "AccountNotInitialized"
    ELSE IF owner \in DOMAIN counters THEN "AccountAlreadyInUse"
    ELSE "Ok"

CounterInitialize ==
    \E owner \in CounterOwners :
        LET err == CounterInitializeResult(owner)
        IN  IF err # "Ok" THEN UNCHANGED vars
            ELSE /\ counters' = (owner :> CounterAccountInitialize(owner, REGISTRY_SEED,
                                                                   clock)) @@ counters
                 /\ UNCHANGED <<clock, registry, attesters, policies, used, log,
                                rent, attester_rent, attester_payer,
                                client_policies, token_accounts, protected,
                                hashing, probe, expiry>>

\* what attestor A1 signed for the holder of the counter program's key: the
\* increment of its counter, the same for another sender and another target,
\* and a call of another function
CounterIssued ==
    {[attester |-> "A1", submitter |-> COUNTER_PROGRAM,
      statement |-> [uuid |-> u, msg_sender |-> k[1], target |-> k[2],
                     msg_value |-> 0, encoded_sig_and_args |-> k[3],
                     policy_id |-> <<80>>, expiration |-> e]] :
        u \in Uuids, e \in Exps,
        k \in {<<COUNTER_PROGRAM, COUNTER_PROGRAM, IncrementSig>>,
               <<"U1", COUNTER_PROGRAM, IncrementSig>>,
               <<COUNTER_PROGRAM, "G2", IncrementSig>>,
               <<COUNTER_PROGRAM, COUNTER_PROGRAM, <<7>>>>}}

\* the increment calls submitted: what was signed, as it is, with a signature
\* that is none, or without the proof instruction before the call
IncrementCalls ==
    {BuildCall(it, tw) : it \in CounterIssued, tw \in {{}, {"att_sig"}, {"tx_first"}}}

\* the call validate_attestation_cpi makes: the owner is the validator
CpiCall(c, owner) == [c EXCEPT !.signer = owner]

\* the Increment context: the accounts are loaded in order, then has_one =
\* predicate_registry and has_one = owner
IncrementAccountsResult(owner, counter, attester_account) ==
    IF counter \notin DOMAIN counters THEN "AccountNotInitialized"
    ELSE IF REGISTRY_SEED \notin DOMAIN registry THEN "AccountNotInitialized"
    ELSE IF attester_account \notin DOMAIN attesters THEN "AccountNotInitialized"
    ELSE IF counters[counter].owner \notin DOMAIN policies THEN "AccountNotInitialized"
    ELSE IF counters[counter].predicate_registry # REGISTRY_SEED THEN "ConstraintHasOne"
    ELSE IF counters[counter].owner # owner THEN "ConstraintHasOne"
    ELSE "Ok"

\* an increment that takes a statement for any function
IncrementChecksResult_AnyFunction(counter, c) ==
    IF c.statement.msg_sender # counters[counter].owner THEN "Unauthorized"
    ELSE IF c.statement.target # COUNTER_PROGRAM THEN "InvalidStatement"
    ELSE "Ok"

\* the checks of increment on the statement
IncrementChecksResult(counter, c) ==
    IF c.statement.encoded_sig_and_args # IncrementSig THEN "InvalidStatement"
    ELSE IF c.statement.msg_sender # counters[counter].owner THEN "Unauthorized"
    ELSE IF c.statement.target # COUNTER_PROGRAM THEN "InvalidStatement"
    ELSE "Ok"

\* validate_attestation_cpi: the registry checks the seeds of the attester
\* account and of the policy account the counter passes on (the policy
\* account of the counter's owner against the one of the statement's target),
\* then validates
ValidateAttestationCpiResult(owner, counter, attester_account, c) ==
    IF attester_account # c.attestation.attester THEN "ConstraintSeeds"
    ELSE IF counters[counter].owner # c.statement.target THEN "ConstraintSeeds"
    ELSE ValidateResult(CpiCall(c, owner))

IncrementResult(owner, counter, attester_account, c) ==
    LET acc == IncrementAccountsResult(owner, counter, attester_account)
    IN  IF acc # "Ok" THEN acc
        ELSE LET chk == IncrementChecksResult(counter, c)
             IN  IF chk # "Ok" THEN chk
                 ELSE ValidateAttestationCpiResult(owner, counter, attester_account, c)

Increment ==
    \E owner \in CounterOwners, counter \in CounterOwners,
       attester_account \in AttesterKeys, c \in IncrementCalls :
        LET err == IncrementResult(owner, counter, attester_account, c)
        IN  IF err # "Ok" THEN UNCHANGED vars
            ELSE /\ used' = (c.attestation.uuid :> UsedUuidRecord(CpiCall(c, owner), clock))
                                @@ used
                 /\ log' = log \cup {UuidMarkedUsed(CpiCall(c, owner), clock)}
                 /\ rent' = [rent EXCEPT ![owner] = @ + 1]
                 /\ counters' = [counters EXCEPT
                                   ![counter] = CounterIncrement(@, clock)]
                 /\ UNCHANGED <<clock, registry, attesters, policies,
                                attester_rent, attester_payer, client_policies,
                                token_accounts, protected, hashing, probe,
                                expiry>>

InitCounter ==
    /\ clock = CLOCK_DRIFT_BUFFER
    /\ registry = << >>
    /\ attesters = << >>
    /\ policies = << >>
    /\ used = << >>
    /\ log = {}
    /\ rent = [s \in CounterOwners |-> 0]
    /\ attester_rent = << >>
    /\ attester_payer = << >>
    /\ client_policies = << >>
    /\ counters = << >>
    /\ token_accounts = << >>
    /\ protected = << >>
    /\ expiry = IdleExpiry
    /\ hashing = IdleHashing
    /\ probe = IdleProbe

\* the registry instructions a counter needs, and the counter program
NextCounter ==
    \/ Tick
    \/ Initialize
    \/ RegisterAttester
    \/ SetPolicyId
    \/ CounterInitialize
    \/ Increment

SpecCounter == InitCounter /\ [][NextCounter]_vars

\* ------------------------------------------- the protected token program

\* the SPL token accounts there are: T1 of U1 holds the tokens, T2 and T3 are
\* of U2, T3 of another mint
TokenKeys == {"T1", "T2", "T3"}

TokenAccountsAtStart ==
    [t \in TokenKeys |->
        [owner |-> IF t = "T1" THEN "U1" ELSE "U2",
         mint |-> IF t = "T3" THEN "M2" ELSE "M1",
         amount |-> IF t = "T1" THEN MaxTokens ELSE 0]]

\* the token accounts a transfer names as its source and as its destination
SourceKeys == {"T1", "T2"}
DestinationKeys == {"T2", "T3"}

\* the protected accounts a call may name
ProtectedKeys == {<<"T1", "U1">>, <<"T2", "U2">>}

\* the expirations a task carries: around the time of the calls
TokenExps == {CLOCK_DRIFT_BUFFER + e : e \in Exps}

\* ProtectedTokenAccount::initialize
ProtectedInitialize(token_account, mint, owner, policy, now) ==
    [token_account |-> token_account, mint |-> mint, owner |-> owner,
     policy |-> PolicyBuffer(policy), policy_len |-> Len(policy),
     created_at |-> now, updated_at |-> now,
     transfer_count |-> 0, total_transferred |-> 0, is_active |-> TRUE]

\* ProtectedTokenAccount::record_transfer (u64 checked_add)
RecordTransfer(p, amount, now) ==
    [p EXCEPT !.transfer_count = @ + 1, !.total_transferred = @ + amount,
              !.updated_at = now]

\* token::transfer
TokenTransfer(accounts, from, to, amount) ==
    IF from = to THEN accounts
    ELSE [accounts EXCEPT ![from].amount = @ - amount, ![to].amount = @ + amount]

\* the InitializeProtectedAccount context, the handler and its call of
\* set_policy for the owner
InitializeProtectedAccountResult(owner, token_account, policy) ==
    IF <<token_account, owner>> \in DOMAIN protected THEN "AccountAlreadyInUse"
    ELSE IF token_accounts[token_account].owner # owner THEN "InvalidTokenAccountOwner"
    ELSE IF policy = <<>> THEN "InvalidPolicy"
    ELSE IF ~(Len(policy) <= POLICY_LEN) THEN "PolicyTooLong"
    ELSE IF PolicyContentResult(policy) # "Ok" THEN PolicyContentResult(policy)
    ELSE SetPolicyResult(owner, policy)

InitializeProtectedAccount ==
    \E owner \in Signers, token_account \in TokenKeys, policy \in {<<>>, <<80>>, <<81>>} :
        LET err == InitializeProtectedAccountResult(owner, token_account, policy)
        IN  IF err # "Ok" THEN UNCHANGED vars
            ELSE /\ protected' =
                        (<<token_account, owner>> :>
                            ProtectedInitialize(token_account,
                                                token_accounts[token_account].mint,
                                                owner, policy, clock)) @@ protected
                 /\ client_policies' =
                        (owner :> ClientPolicyInitialize(owner, policy, clock))
                            @@ client_policies
                 /\ UNCHANGED <<clock, registry, attesters, policies, used, log,
                                rent, attester_rent, attester_payer, counters,
                                token_accounts, hashing, probe, expiry>>

\* validate_attestation of the registry as protected_transfer calls it, on a
\* Task, with the policy account of the validator: the checks of the
\* validation, in their order, and the replay record of the uuid
ValidateTaskResult(task, attestor_key, attestation, validator, now) ==
    IF REGISTRY_SEED \notin DOMAIN registry THEN "AccountNotInitialized"
    ELSE IF attestor_key \notin DOMAIN attesters THEN "AccountNotInitialized"
    ELSE IF validator \notin DOMAIN client_policies THEN "AccountNotInitialized"
    ELSE IF Len(attestation.signature) # SIG_LEN THEN "InvalidSignature"
    ELSE IF task.policy_id = <<>> THEN "InvalidPolicy"
    ELSE IF task.uuid # attestation.uuid THEN "TaskIdMismatch"
    ELSE IF task.expiration # attestation.expiration THEN "ExpirationMismatch"
    ELSE IF ~NotExpired(now, task.expiration) THEN "TaskExpired"
    ELSE IF ~NotExpired(now, attestation.expiration) THEN "AttestationExpired"
    ELSE IF task.policy_id # GetPolicy(client_policies[validator]) THEN "PolicyIdMismatch"
    ELSE IF attestor_key # attestation.attester THEN "WrongAttestor"
    ELSE IF ~attesters[attestor_key].is_registered
        THEN "AttestorNotRegisteredForValidation"
    ELSE IF attestation.signature
                # Sign(attestation.attester, HashStatementSafe(task, validator))
        THEN "InvalidSignature"
    ELSE IF task.uuid \in DOMAIN used THEN "UuidAlreadyUsed"
    ELSE "Ok"

\* what attestor A1 signed for U1: transfers from U1 to T2, and one each to
\* T3 and with U2 as the sender
TokenIssued ==
    {[uuid |-> u, msg_sender |-> "U1", target |-> "T2", msg_value |-> v,
      encoded_sig_and_args |-> <<7>>, policy_id |-> <<80>>, expiration |-> e] :
        u \in Uuids, v \in 1..MaxTokens, e \in TokenExps}
    \cup
    {[uuid |-> 1, msg_sender |-> k[1], target |-> k[2], msg_value |-> 1,
      encoded_sig_and_args |-> <<7>>, policy_id |-> <<80>>,
      expiration |-> CLOCK_DRIFT_BUFFER + MaxExp] :
        k \in {<<"U1", "T3">>, <<"U2", "T2">>}}

\* the attestation of attestor A1 on a task
TokenAttestation(t, signature) ==
    [uuid |-> t.uuid, attester |-> "A1", expiration |-> t.expiration,
     signature |-> signature]

\* the (task, attestation) pairs submitted: what was signed, and one with a
\* signature that is none
TransferCalls ==
    {[task |-> t,
      attestation |-> TokenAttestation(t, Sign("A1", HashStatementSafe(t, "U1")))] :
        t \in TokenIssued}
    \cup
    {[task |-> t, attestation |-> TokenAttestation(t, JunkSig)] :
        t \in {u \in TokenIssued : u.uuid = 2 /\ u.msg_value = 1
                                    /\ u.expiration = CLOCK_DRIFT_BUFFER}}

\* the ProtectedTransfer context: the protected account is at the seeds of
\* its token account and of the signer, then the constraints in order
ProtectedTransferAccountsResult(owner, p, source, destination, amount) ==
    IF p \notin DOMAIN protected THEN "AccountNotInitialized"
    ELSE IF p # <<protected[p].token_account, owner>> THEN "ConstraintSeeds"
    ELSE IF protected[p].owner # owner THEN "Unauthorized"
    ELSE IF ~protected[p].is_active THEN "AccountNotActive"
    ELSE IF source # protected[p].token_account THEN "InvalidTokenAccount"
    ELSE IF token_accounts[source].owner # owner THEN "InvalidTokenAccountOwner"
    ELSE IF ~(token_accounts[source].amount >= amount) THEN "InsufficientBalance"
    ELSE IF token_accounts[destination].mint # token_accounts[source].mint
        THEN "TokenMintMismatch"
    ELSE "Ok"

\* a transfer that does not compare the amount with the task
ProtectedTransferChecksResult_AnyAmount(owner, destination, amount, task, now) ==
    IF task.msg_sender # owner THEN "TaskIdMismatch"
    ELSE IF task.target # destination THEN "TaskIdMismatch"
    ELSE IF ~(now <= task.expiration) THEN "TaskExpired"
    ELSE "Ok"

\* the checks of protected_transfer on the task
ProtectedTransferChecksResult(owner, destination, amount, task, now) ==
    IF task.msg_sender # owner THEN "TaskIdMismatch"
    ELSE IF task.target # destination THEN "TaskIdMismatch"
    ELSE IF task.msg_value # amount THEN "TaskIdMismatch"
    ELSE IF ~(now <= task.expiration) THEN "TaskExpired"
    ELSE "Ok"

ProtectedTransferResult(owner, p, source, destination, amount, c) ==
    LET acc == ProtectedTransferAccountsResult(owner, p, source, destination, amount)
    IN  IF acc # "Ok" THEN acc
        ELSE LET chk == ProtectedTransferChecksResult(owner, destination, amount,
                                                      c.task, clock)
             IN  IF chk # "Ok" THEN chk
                 ELSE IF ValidateTaskResult(c.task, c.attestation.attester,
                                            c.attestation, owner, clock) # "Ok"
                     THEN "AttestationValidationFailed"
                 ELSE "Ok"

\* the call of the registry as protected_transfer makes it
TransferCpiCall(c, owner) ==
    [statement |-> c.task, attestation |-> c.attestation, signer |-> owner]

ProtectedTransfer ==
    \E owner \in Signers, p \in ProtectedKeys, source \in SourceKeys,
       destination \in DestinationKeys, amount \in 1..MaxTokens, c \in TransferCalls :
        LET err == ProtectedTransferResult(owner, p, source, destination, amount, c)
        IN  IF err # "Ok" THEN UNCHANGED vars
            ELSE /\ used' = (c.task.uuid :> UsedUuidRecord(TransferCpiCall(c, owner), clock))
                                @@ used
                 /\ log' = log \cup {UuidMarkedUsed(TransferCpiCall(c, owner), clock)}
                 /\ rent' = [rent EXCEPT ![owner] = @ + 1]
                 /\ token_accounts' = TokenTransfer(token_accounts, source, destination,
                                                    amount)
                 /\ protected' = [protected EXCEPT ![p] = RecordTransfer(@, amount, clock)]
                 /\ UNCHANGED <<clock, registry, attesters, policies,
                                attester_rent, attester_payer, client_policies,
                                counters, hashing, probe, expiry>>

InitToken ==
    /\ clock = CLOCK_DRIFT_BUFFER
    /\ registry = << >>
    /\ attesters = << >>
    /\ policies = << >>
    /\ used = << >>
    /\ log = {}
    /\ rent = [s \in Signers |-> 0]
    /\ attester_rent = << >>
    /\ attester_payer = << >>
    /\ client_policies = << >>
    /\ counters = << >>
    /\ token_accounts = TokenAccountsAtStart
    /\ protected = << >>
    /\ expiry = IdleExpiry
    /\ hashing = IdleHashing
    /\ probe = IdleProbe

\* the registry instructions a protected account needs, and the token program
NextToken ==
    \/ Tick
    \/ Initialize
    \/ RegisterAttester
    \/ InitializeProtectedAccount
    \/ ProtectedTransfer

SpecToken == InitToken /\ [][NextToken]_vars

\* ------------------------------------- the attester instructions and their rent

InitRent ==
    /\ clock = CLOCK_DRIFT_BUFFER
    /\ registry = << >>
    /\ attesters = << >>
    /\ policies = << >>
    /\ used = << >>
    /\ log = {}
    /\ rent = [s \in Signers |-> 0]
    /\ attester_rent = [s \in Signers |-> 0]
    /\ attester_payer = << >>
    /\ client_policies = << >>
    /\ counters = << >>
    /\ token_accounts = << >>
    /\ protected = << >>
    /\ expiry = IdleExpiry
    /\ hashing = IdleHashing
    /\ probe = IdleProbe

NextRent ==
    \/ Tick
    \/ Initialize
    \/ RegisterAttester
    \/ DeregisterAttester
    \/ TransferAuthority

SpecRent == InitRent /\ [][NextRent]_vars

\* ------------------------------------------------ the message builder on its own

\* the tasks the builder is given
Tasks ==
    [uuid : Uuids, msg_sender : Signers, target : {"G1", "G2"}, msg_value : {0, 1},
     encoded_sig_and_args : {<<7>>, <<7, 80>>}, policy_id : PolicyIds,
     expiration : Exps]

TaskFields ==
    {"uuid", "msg_sender", "target", "msg_value", "encoded_sig_and_args",
     "policy_id", "expiration"}

\* the tasks that are t, or t with another value in one field
Variants(t) ==
    {u \in Tasks : Cardinality({f \in TaskFields : u[f] # t[f]}) <= 1}

InitHash ==
    /\ clock = CLOCK_DRIFT_BUFFER
    /\ registry = << >>
    /\ attesters = << >>
    /\ policies = << >>
    /\ used = << >>
    /\ log = {}
    /\ rent = [s \in Signers |-> 0]
    /\ attester_rent = << >>
    /\ attester_payer = << >>
    /\ client_policies = << >>
    /\ counters = << >>
    /\ token_accounts = << >>
    /\ protected = << >>
    /\ expiry = IdleExpiry
    /\ probe = IdleProbe
    /\ \E a \in Tasks, va \in Signers, vb \in Signers :
          \E b \in Variants(a) :
              hashing = [IdleHashing EXCEPT !.a = a, !.b = b, !.va = va, !.vb = vb,
                                           !.state = "given"]

\* both tasks go through hash_task_safe and hash_task_with_expiry
HashTasks ==
    /\ hashing.state = "given"
    /\ hashing' = [hashing EXCEPT
                      !.ha = HashInput(hashing.a, hashing.va),
                      !.hb = HashInput(hashing.b, hashing.vb),
                      !.da = HashStatementSafe(hashing.a, hashing.va),
                      !.db = HashStatementSafe(hashing.b, hashing.vb),
                      !.wa = HashInputWithExpiry(hashing.a),
                      !.wb = HashInputWithExpiry(hashing.b),
                      !.state = "hashed"]
    /\ UNCHANGED <<clock, registry, attesters, policies, used, log, rent,
                   attester_rent, attester_payer, client_policies, counters,
                   token_accounts, protected, probe, expiry>>

NextHash == HashTasks

SpecHash == InitHash /\ [][NextHash]_vars

\* the policies a task given to the builder may carry besides those of
\* PolicyIds
LongerPolicyIds == {<<80, 81>>}

\* the tasks that are t but for their two fields of variable length
Regrouped(t) ==
    {[t EXCEPT !.encoded_sig_and_args = e, !.policy_id = p] :
        e \in {<<7>>, <<7, 80>>}, p \in PolicyIds \cup LongerPolicyIds}

\* two tasks that agree in every field of fixed length, hashed for one
\* submitter
InitVariableFields ==
    /\ clock = CLOCK_DRIFT_BUFFER
    /\ registry = << >>
    /\ attesters = << >>
    /\ policies = << >>
    /\ used = << >>
    /\ log = {}
    /\ rent = [s \in Signers |-> 0]
    /\ attester_rent = << >>
    /\ attester_payer = << >>
    /\ client_policies = << >>
    /\ counters = << >>
    /\ token_accounts = << >>
    /\ protected = << >>
    /\ expiry = IdleExpiry
    /\ probe = IdleProbe
    /\ \E a \in Tasks, v \in Signers :
          \E b \in Regrouped(a) :
              hashing = [IdleHashing EXCEPT !.a = a, !.b = b, !.va = v, !.vb = v,
                                           !.state = "given"]

SpecVariableFields == InitVariableFields /\ [][NextHash]_vars

\* ------------------------------------- the expiry comparisons on 64 bits

\* i64::MAX and i64::MIN, as i64::to_le_bytes gives them
I64Max == Rep(7, 255) \o <<127>>
I64Min == Rep(7, 0) \o <<128>>

\* an i64 near i64::MIN (base -1), near zero (base 0) or near i64::MAX
\* (base 1): the integer base * 2^63 + off, less one for base 1
I64Of(v) ==
    CASE v.base = 0 -> I64ToLe(v.off)
      [] v.base = 1 -> [I64Max EXCEPT ![1] = 255 + v.off]
      [] v.base = -1 -> [I64Min EXCEPT ![1] = v.off]

\* the sum of two little-endian byte strings of one length and a carry, the
\* carry out of the last byte dropped
RECURSIVE AddBytes(_, _, _)
AddBytes(a, b, carry) ==
    IF a = <<>> THEN <<>>
    ELSE LET s == a[1] + b[1] + carry
         IN  <<s % 256>> \o AddBytes(Tail(a), Tail(b), s \div 256)

\* i64::wrapping_add: the sum modulo 2^64
I64WrappingAdd(a, b) == AddBytes(a, b, 0)

\* the sign bit of an i64
I64Negative(a) == a[8] >= 128

\* the sum of two i64 is no i64: the operands agree in sign and the sum
\* modulo 2^64 does not
I64AddOverflows(a, b) ==
    /\ I64Negative(a) = I64Negative(b)
    /\ I64Negative(I64WrappingAdd(a, b)) # I64Negative(a)

\* <= on byte strings of one length read as unsigned integers
RECURSIVE UnsignedLe(_, _)
UnsignedLe(a, b) ==
    IF a = <<>> THEN TRUE
    ELSE LET n == Len(a)
         IN  IF a[n] # b[n] THEN a[n] < b[n]
             ELSE UnsignedLe(SubSeq(a, 1, n - 1), SubSeq(b, 1, n - 1))

\* <= of i64
I64Le(a, b) ==
    IF I64Negative(a) # I64Negative(b) THEN I64Negative(a) ELSE UnsignedLe(a, b)

\* what + of i64 does when the sum is no i64 depends on the overflow-checks
\* setting of the build profile: the sum wraps modulo 2^64, or the program
\* panics and the instruction aborts
OverflowBuilds == {"wrapping", "checked"}

\* require!(current_timestamp <= expiration + CLOCK_DRIFT_BUFFER, error)
ExpiryCheck(build, now, expiration, error) ==
    LET buffer == I64ToLe(CLOCK_DRIFT_BUFFER)
    IN  IF build = "checked" /\ I64AddOverflows(expiration, buffer) THEN "Abort"
        ELSE IF I64Le(now, I64WrappingAdd(expiration, buffer)) THEN "Ok"
        ELSE error

\* the two expiry checks of validate_attestation, for a statement and an
\* attestation of one expiration
ExpiryDecision(build, now, expiration) ==
    LET first == ExpiryCheck(build, now, expiration, "AttestationExpired")
    IN  IF first # "Ok" THEN first
        ELSE ExpiryCheck(build, now, expiration, "StatementExpired")

\* require!(current_timestamp > expires_at + CLOCK_DRIFT_BUFFER,
\*          StatementNotExpired)
CleanupCheck(build, now, expires_at) ==
    LET buffer == I64ToLe(CLOCK_DRIFT_BUFFER)
    IN  IF build = "checked" /\ I64AddOverflows(expires_at, buffer) THEN "Abort"
        ELSE IF ~I64Le(now, I64WrappingAdd(expires_at, buffer)) THEN "Ok"
        ELSE "StatementNotExpired"

\* the clock readings the comparisons are made at
ExpiryNows == {[base |-> 0, off |-> n] : n \in {0, 1, CLOCK_DRIFT_BUFFER,
                                                CLOCK_DRIFT_BUFFER + 1}}

\* the expirations compared: about zero, the least i64, and those within
\* CLOCK_DRIFT_BUFFER of the greatest and just below
ExpiryValues ==
    {[base |-> 0, off |-> n] : n \in {-31, -30, -1, 0, 1}}
        \cup {[base |-> -1, off |-> 0]}
        \cup {[base |-> 1, off |-> -k] :
                k \in {0, 1, CLOCK_DRIFT_BUFFER - 1, CLOCK_DRIFT_BUFFER,
                       CLOCK_DRIFT_BUFFER + 1}}

InitExpiry ==
    /\ clock = CLOCK_DRIFT_BUFFER
    /\ registry = << >>
    /\ attesters = << >>
    /\ policies = << >>
    /\ used = << >>
    /\ log = {}
    /\ rent = [s \in Signers |-> 0]
    /\ attester_rent = << >>
    /\ attester_payer = << >>
    /\ client_policies = << >>
    /\ counters = << >>
    /\ token_accounts = << >>
    /\ protected = << >>
    /\ hashing = IdleHashing
    /\ probe = IdleProbe
    /\ expiry \in {[build |-> b, now |-> n, expiration |-> e,
                    validate |-> "none", cleanup |-> "none"] :
                     b \in OverflowBuilds, n \in ExpiryNows, e \in ExpiryValues}

\* validate_attestation reaches its expiry checks
DecideExpiry ==
    /\ expiry.validate = "none"
    /\ expiry' = [expiry EXCEPT !.validate =
                     ExpiryDecision(expiry.build, I64Of(expiry.now),
                                    I64Of(expiry.expiration))]
    /\ UNCHANGED <<clock, registry, attesters, policies, used, log, rent,
                   attester_rent, attester_payer, client_policies, counters,
                   token_accounts, protected, hashing, probe>>

\* cleanup_expired_uuid reaches its check, for a record of this expires_at
DecideCleanup ==
    /\ expiry.cleanup = "none"
    /\ expiry' = [expiry EXCEPT !.cleanup =
                     CleanupCheck(expiry.build, I64Of(expiry.now),
                                  I64Of(expiry.expiration))]
    /\ UNCHANGED <<clock, registry, attesters, policies, used, log, rent,
                   attester_rent, attester_payer, client_policies, counters,
                   token_accounts, protected, hashing, probe>>

NextExpiry == DecideExpiry \/ DecideCleanup

SpecExpiry == InitExpiry /\ [][NextExpiry]_vars

\* ------------------------------------------ the policy instructions on their own

\* the registry and the two generations of policy instructions: policies of
\* programs (set_policy_id, update_policy_id) and of clients (set_policy,
\* update_policy)
NextPolicy ==
    \/ Tick
    \/ Initialize
    \/ SetPolicyId
    \/ UpdatePolicyId
    \/ SetPolicy
    \/ UpdatePolicy

SpecPolicy == Init /\ [][NextPolicy]_vars

\* policy contents with zero bytes among them: at the end, in the middle, alone
BinaryPolicyInputs ==
    {<<>>, <<80>>, <<80, 0>>, <<80, 0, 81>>, <<0>>, Rep(POLICY_LEN, 82)}

\* the per-client policy instructions called with these contents
NextBinaryPolicy ==
    \/ Tick
    \/ Initialize
    \/ SetPolicyOf(BinaryPolicyInputs)
    \/ UpdatePolicyOf(BinaryPolicyInputs)

SpecBinaryPolicy == Init /\ [][NextBinaryPolicy]_vars

\* the programs that policies are set for when they are counted: those of
\* Programs and G5, which another signer may upgrade
CountedPrograms == Programs \cup {"G5"}

\* the instructions of the registry other than the closing ones, with the
\* policy instructions called for the counted programs
NextPolicyCount ==
    \/ Tick
    \/ Initialize
    \/ RegisterAttester
    \/ SetPolicyIdOf(CountedPrograms)
    \/ UpdatePolicyIdOf(CountedPrograms)
    \/ ValidateAttestation

SpecPolicyCount == Init /\ [][NextPolicyCount]_vars

\* the instructions that write a timestamp of the registry or of the policy
\* account of a client
NextTimestamps ==
    \/ Tick
    \/ Initialize
    \/ RegisterAttester
    \/ DeregisterAttester
    \/ TransferAuthority
    \/ SetPolicy
    \/ UpdatePolicy

SpecTimestamps == Init /\ [][NextTimestamps]_vars



\* ------------------------------------------------ what the claims speak of

\* the three accounts the instruction loads exist
AccountsLoaded(c) ==
    /\ REGISTRY_SEED \in DOMAIN registry
    /\ c.attestation.attester \in DOMAIN attesters
    /\ c.statement.target \in DOMAIN policies

\* the triple the attestation and the statement of a call stand for
ExpectedTriple(c) ==
    [sig |-> c.attestation.signature,
     pk  |-> ToBytes(c.attestation.attester),
     msg |-> HashStatementSafe(c.statement, c.signer)]

\* the instruction right before the call is a call of the native program
\* that verified exactly the expected triple
ProofCorrect(c) ==
    /\ c.tx.cur >= 1
    /\ c.tx.cur \in DOMAIN c.tx.ixs
    /\ c.tx.ixs[c.tx.cur].program_id = ED25519_PROGRAM
    /\ c.tx.ixs[c.tx.cur].accounts = <<>>
    /\ NativeVerified(c.tx.ixs, c.tx.cur) = {ExpectedTriple(c)}

ProofCorrectCalls == {c \in ValidateCalls : ProofCorrect(c)}

\* everything about a call is in order, but for its expiry, its proof and
\* the replay record
ValidButFor(c) ==
    /\ AccountsLoaded(c)
    /\ attesters[c.attestation.attester].is_registered
    /\ c.attester_key = c.attestation.attester
    /\ c.statement.uuid = c.attestation.uuid
    /\ c.statement.expiration = c.attestation.expiration
    /\ c.statement.policy_id = policies[c.statement.target].policy_id

\* a valid pair, submitted correctly and in time
ValidPair(c) ==
    /\ ValidButFor(c)
    /\ clock <= c.attestation.expiration + CLOCK_DRIFT_BUFFER
    /\ c \in ProofCorrectCalls

\* the events a step emits
Emitted == log' \ log

\* the calls that carry an attestation issued to another submitter
ForeignCalls ==
    {c \in ValidateCalls :
        \E it \in Issued : /\ c.attestation.signature = IssuedSignature(it)
                           /\ c.signer # it.submitter}

\* ------------------------------------------------------------------ claims

\* C1: a valid (Task, Attestation) pair (matching uuid and expiration, the
\* stored policy, a registered attestor, the proof instruction right before,
\* not expired) validates when no UsedUuid record of its uuid exists, and the
\* step creates that record; while the record exists every call carrying the
\* uuid fails, with the account-already-in-use error of the create-or-fail
\* whenever the accounts it loads first exist.
C1_FirstSucceeds ==
    \A c \in ValidateCalls :
        /\ (ValidPair(c) /\ c.attestation.uuid \notin DOMAIN used)
              => ValidateResult(c) = "Ok"
        /\ c.attestation.uuid \in DOMAIN used
              => /\ ValidateResult(c) # "Ok"
                 /\ AccountsLoaded(c) => ValidateResult(c) = "AccountAlreadyInUse"

C1_CreatesRecord ==
    \A e \in Emitted :
        /\ e.uuid \notin DOMAIN used
        /\ e.uuid \in DOMAIN used'
        /\ used'[e.uuid] = [uuid |-> e.uuid, used_at |-> e.timestamp,
                            expires_at |-> e.expires_at, validator |-> e.validator]
        /\ \A u \in DOMAIN used : u \in DOMAIN used' /\ used'[u] = used[u]

C1_ValidateOnce == [](C1_FirstSucceeds) /\ [][C1_CreatesRecord]_vars

\* C1 witness: a record exists and a valid pair carrying its uuid is refused
C1_Witness ==
    \E c \in ValidateCalls :
        /\ ValidPair(c)
        /\ c.attestation.uuid \in DOMAIN used
        /\ used[c.attestation.uuid].expires_at = c.attestation.expiration
        /\ ValidateResult(c) = "AccountAlreadyInUse"

\* C2: two transactions carrying a valid attestation for the same uuid, run
\* one after the other in either order: the one that succeeds finds no
\* UsedUuid record of the uuid and leaves the record of its own submitter,
\* and from then on the other fails, whoever submits it; one step never
\* validates two attestations.
C2_LoserFails ==
    \A u \in DOMAIN used : \A c \in ValidateCalls :
        c.attestation.uuid = u => ValidateResult(c) # "Ok"

C2_OneWinner ==
    /\ Cardinality(Emitted) <= 1
    /\ \A e \in Emitted :
          /\ e.uuid \notin DOMAIN used
          /\ e.uuid \in DOMAIN used'
          /\ used'[e.uuid].validator = e.validator
          /\ DOMAIN used' = DOMAIN used \cup {e.uuid}

C2_RaceAtMostOne == [](C2_LoserFails) /\ [][C2_OneWinner]_vars

\* C2 witness: two submitters held a valid attestation for one uuid; one of
\* them consumed it
C2_Witness ==
    \E c \in ValidateCalls, d \in ValidateCalls :
        /\ c.attestation.uuid = d.attestation.uuid
        /\ c.signer # d.signer
        /\ ValidPair(c) /\ ValidPair(d)
        /\ c.attestation.uuid \in DOMAIN used
        /\ used[c.attestation.uuid].validator = c.signer
        /\ used[c.attestation.uuid].used_at = clock


\* C3 (as claimed): once a uuid was consumed, no later validate_attestation
\* carrying it succeeds, whatever happened in between.
C3_Terminal ==
    [][\A e \in Emitted : \A f \in log : f.uuid # e.uuid]_vars

\* C3 (amended): while the UsedUuid record of a consumed uuid exists no
\* validate_attestation carrying the uuid succeeds; once cleanup_expired_uuid
\* closed the record, which needs now > expires_at + CLOCK_DRIFT_BUFFER, the
\* uuid validates again only with a later expiration than the consumed one.
C3_TerminalUntilCleanup ==
    [][\A e \in Emitted :
          /\ e.uuid \notin DOMAIN used
          /\ \A f \in log :
                f.uuid = e.uuid =>
                    /\ e.expires_at > f.expires_at
                    /\ e.timestamp > f.expires_at + CLOCK_DRIFT_BUFFER]_vars

\* C3 witness: a uuid consumed, cleaned up and consumed again
C3_Witness ==
    \E e \in log, f \in log :
        /\ e.uuid = f.uuid
        /\ e.expires_at > f.expires_at
        /\ e.uuid \in DOMAIN used
        /\ used[e.uuid].expires_at = e.expires_at

\* C4: no clock value lets validate_attestation accept an expiration that
\* cleanup_expired_uuid would already let go, both using CLOCK_DRIFT_BUFFER;
\* so, the clock never running backwards, one attestation (uuid and
\* expiration) is never validated twice.
C4_NoOverlap ==
    \A E \in Exps : ~(NotExpired(clock, E) /\ CleanupEligible(clock, E))

C4_NeverTwice ==
    \A e \in Emitted : \A f \in log :
        ~(f.uuid = e.uuid /\ f.expires_at = e.expires_at)

C4_SharedBuffer == [](C4_NoOverlap) /\ [][C4_NeverTwice]_vars

\* C4 witness: a record was closed at a time its attestation is refused as
\* expired
C4_Witness ==
    \E f \in log, c \in ValidateCalls :
        /\ f.uuid \notin DOMAIN used
        /\ c.attestation.uuid = f.uuid
        /\ c.attestation.expiration = f.expires_at
        /\ c.signer = f.validator
        /\ ValidButFor(c)
        /\ c \in ProofCorrectCalls
        /\ CleanupEligible(clock, f.expires_at)
        /\ ValidateResult(c) = "AttestationExpired"

\* C5: an attestation an attestor signed for submitter S never validates in
\* a transaction another principal submits, whatever Task.msg_sender is; when
\* every other check passes the error is InvalidSignature.
C5_BoundToSubmitter ==
    \A c \in ForeignCalls :
        /\ ValidateResult(c) # "Ok"
        /\ (ValidButFor(c) /\ NotExpired(clock, c.attestation.expiration)
              /\ c.attestation.uuid \notin DOMAIN used)
             => ValidateResult(c) = "InvalidSignature"

\* C5 witness: an attestation in order is refused in the hands of another
\* submitter, whether the Task names that submitter as msg_sender or not
C5_Witness ==
    \E c \in ForeignCalls, d \in ForeignCalls :
        /\ c.statement.msg_sender = c.signer
        /\ d.statement.msg_sender # d.signer
        /\ ValidButFor(c) /\ ValidButFor(d)
        /\ c.attestation.uuid \notin DOMAIN used
        /\ d.attestation.uuid \notin DOMAIN used
        /\ ValidateResult(c) = "InvalidSignature"
        /\ ValidateResult(d) = "InvalidSignature"


\* what the native program verified when it ran the instruction before the
\* call the probe stands for
ProbeVerified ==
    IF probe.tx.cur >= 1 /\ probe.tx.cur \in DOMAIN probe.tx.ixs
    THEN NativeVerified(probe.tx.ixs, probe.tx.cur)
    ELSE {}

\* C6: whenever verify_ed25519_signature accepts, the instruction at
\* index - 1 is a call of the native program, and the one triple that call
\* verified, the entry its own header locates in its own data, is the
\* expected triple; expected bytes that only stand elsewhere (behind the
\* verified entry, in another instruction, in a second entry) do not count.
C6_AcceptsOnlyVerified ==
    probe.result = "Ok"
        => /\ probe.tx.ixs[probe.tx.cur].program_id = ED25519_PROGRAM
           /\ ProbeVerified = {[sig |-> probe.signature, pk |-> probe.pubkey,
                                msg |-> probe.message]}

\* C6 witness: the verifier was tried on a transaction whose native call
\* verified another triple and that carries the expected bytes in an
\* instruction its header names, and refused it
C6_Witness ==
    /\ probe.result = "InvalidSignature"
    /\ ~probe.tampered
    /\ probe.tx.cur = 2
    /\ probe.tx.ixs[2].program_id = ED25519_PROGRAM
    /\ ProbeVerified = {OwnTriple(probe.expected)}
    /\ Slice(probe.tx.ixs[2].data, HEADER_LEN, HEADER_LEN + SIG_LEN) = probe.signature

\* C8: the verifier accepting a transaction for an expected triple refuses
\* the same transaction, with InvalidSignature, once any single byte of the
\* expected signature, public key or digest is changed.
C8_TamperDetected ==
    (/\ probe.tampered
     /\ probe.result # "none"
     /\ VerifyEd25519Signature(probe.expected.sig, probe.expected.pk,
                               probe.expected.msg, probe.tx.ixs, probe.tx.cur) = "Ok")
        => probe.result = "InvalidSignature"

\* C8 witness: the last byte of the expected public key was changed for a
\* transaction the verifier accepts, and the verifier refused
C8_Witness ==
    /\ probe.tampered
    /\ probe.pubkey[PUBKEY_LEN] # probe.expected.pk[PUBKEY_LEN]
    /\ probe.result = "InvalidSignature"
    /\ VerifyEd25519Signature(probe.expected.sig, probe.expected.pk,
                              probe.expected.msg, probe.tx.ixs, probe.tx.cur) = "Ok"


\* the calls whose instruction at index - 1 is missing or is not a call of the
\* native Ed25519 program
NoProofBefore(c) ==
    \/ c.tx.cur = 0
    \/ c.tx.cur \notin DOMAIN c.tx.ixs
    \/ c.tx.ixs[c.tx.cur].program_id # ED25519_PROGRAM

\* a matching call of the native program stands elsewhere in the transaction
ProofElsewhere(c) ==
    \E i \in DOMAIN c.tx.ixs :
        /\ i # c.tx.cur
        /\ c.tx.ixs[i].program_id = ED25519_PROGRAM
        /\ NativeVerified(c.tx.ixs, i) = {ExpectedTriple(c)}

NoProofBeforeCalls == {c \in ValidateCalls : NoProofBefore(c)}

\* C7: a call that is the first instruction of its transaction, or whose
\* preceding instruction is not a call of the native Ed25519 program, fails,
\* with InvalidSignature when every other check passes, even though a
\* matching native instruction stands elsewhere in the transaction.
C7_ProofImmediatelyBefore ==
    \A c \in NoProofBeforeCalls :
        /\ ValidateResult(c) # "Ok"
        /\ (ValidButFor(c) /\ NotExpired(clock, c.attestation.expiration)
              /\ c.attestation.uuid \notin DOMAIN used)
             => ValidateResult(c) = "InvalidSignature"

\* C7 witness: a call at index 0 and a call behind another program's
\* instruction, each with the matching proof elsewhere, are refused
C7_Witness ==
    \E c \in NoProofBeforeCalls, d \in NoProofBeforeCalls :
        /\ c.tx.cur = 0
        /\ d.tx.cur > 0
        /\ ProofElsewhere(c) /\ ProofElsewhere(d)
        /\ ValidButFor(c) /\ ValidButFor(d)
        /\ c.attestation.uuid \notin DOMAIN used
        /\ d.attestation.uuid \notin DOMAIN used
        /\ ValidateResult(c) = "InvalidSignature"
        /\ ValidateResult(d) = "InvalidSignature"

\* C9: with every other check passing, validate_attestation fails as expired
\* when now > expiration + CLOCK_DRIFT_BUFFER and succeeds when
\* now = expiration + CLOCK_DRIFT_BUFFER.
C9_ExpiryBoundary ==
    \A c \in ProofCorrectCalls :
        (ValidButFor(c) /\ c.attestation.uuid \notin DOMAIN used)
            => /\ clock > c.attestation.expiration + CLOCK_DRIFT_BUFFER
                    => ValidateResult(c) = "AttestationExpired"
               /\ clock = c.attestation.expiration + CLOCK_DRIFT_BUFFER
                    => ValidateResult(c) = "Ok"

\* C9 witness: one attestation validated exactly at the boundary, another
\* refused one second past its own
C9_Witness ==
    /\ \E u \in DOMAIN used :
          /\ used[u].used_at = used[u].expires_at + CLOCK_DRIFT_BUFFER
          /\ used[u].used_at = clock
    /\ \E c \in ProofCorrectCalls :
          /\ ValidButFor(c)
          /\ c.attestation.uuid \notin DOMAIN used
          /\ clock = c.attestation.expiration + CLOCK_DRIFT_BUFFER + 1
          /\ ValidateResult(c) = "AttestationExpired"

\* the accounts are in order for a call: those it loads exist with their
\* constraints met and no UsedUuid record stands in the way
ContextPasses(c) ==
    /\ AccountsLoaded(c)
    /\ attesters[c.attestation.attester].is_registered
    /\ c.attestation.uuid \notin DOMAIN used

\* C10 (as claimed): a call whose Task.uuid differs from its Attestation.uuid
\* fails with the uuid-mismatch error whatever its other fields are, the
\* accounts being in order.
C10_MismatchWhatever ==
    \A c \in ValidateCalls :
        (c.statement.uuid # c.attestation.uuid /\ ContextPasses(c))
            => ValidateResult(c) = "StatementIdMismatch"

\* C10 (amended): a call whose Task.uuid differs from its Attestation.uuid
\* always fails; the error is the uuid-mismatch error whenever the accounts
\* are in order and the policy id is non-empty on both sides, whatever the
\* expiration, the policy match, the attester key and the signature proof are.
C10_UuidMismatch ==
    \A c \in ValidateCalls :
        c.statement.uuid # c.attestation.uuid
            => /\ ValidateResult(c) # "Ok"
               /\ (ContextPasses(c) /\ c.statement.policy_id # <<>>
                     /\ policies[c.statement.target].policy_id # <<>>)
                    => ValidateResult(c) = "StatementIdMismatch"

\* C10 witness: a uuid mismatch is reported for calls that are also expired,
\* carry another policy, a wrong attester key and no proof
C10_Witness ==
    /\ \E c \in ValidateCalls :
          /\ c.statement.uuid # c.attestation.uuid /\ ContextPasses(c)
          /\ ~NotExpired(clock, c.attestation.expiration)
          /\ ValidateResult(c) = "StatementIdMismatch"
    /\ \E c \in ValidateCalls :
          /\ c.statement.uuid # c.attestation.uuid /\ ContextPasses(c)
          /\ c.statement.policy_id # policies[c.statement.target].policy_id
          /\ ValidateResult(c) = "StatementIdMismatch"
    /\ \E c \in ValidateCalls :
          /\ c.statement.uuid # c.attestation.uuid /\ ContextPasses(c)
          /\ c.attester_key # c.attestation.attester
          /\ ValidateResult(c) = "StatementIdMismatch"
    /\ \E c \in NoProofBeforeCalls :
          /\ c.statement.uuid # c.attestation.uuid /\ ContextPasses(c)
          /\ ValidateResult(c) = "StatementIdMismatch"


\* the calls that submit a signed request exactly as it was issued
IssuedCalls == {BuildCall(it, {}) : it \in Issued}

\* the attester accounts a step closes
Deregistered == DOMAIN attesters \ DOMAIN attesters'

\* C11 (as claimed): once deregister_attester took an attestor off the
\* registry, a pair the attestor issued before fails with
\* AttesterNotRegisteredForValidation when it is submitted (the registry and
\* the policy account exist and no UsedUuid record of the uuid stands in the
\* way), and no UsedUuid record is created.
C11_NamedError(c) ==
    (/\ REGISTRY_SEED \in DOMAIN registry
     /\ c.statement.target \in DOMAIN policies
     /\ c.attestation.uuid \notin DOMAIN used)
        => ValidateResult(c) = "AttesterNotRegisteredForValidation"

C11_DeregisteredRejected ==
    [][\A k \in Deregistered : \A c \in IssuedCalls :
          c.attestation.attester = k => C11_NamedError(c)']_vars

\* the policies for which the attestation of a call was issued
IssuedPolicy ==
    [c \in ValidateCalls |->
        {it.statement.policy_id :
            it \in {i \in Issued : IssuedSignature(i) = c.attestation.signature}}]

\* C12: validate_attestation succeeds only if the policy of the statement
\* equals, byte for byte, the policy id stored for the target program at that
\* moment; an attestation issued for a policy P never validates while the
\* stored policy is another one, whatever policy the submitted statement names.
C12_PolicyBoundAtValidation ==
    \A c \in ValidateCalls :
        /\ ValidateResult(c) = "Ok"
              => c.statement.policy_id = policies[c.statement.target].policy_id
        /\ (/\ c.statement.target \in DOMAIN policies
            /\ \E P \in IssuedPolicy[c] : P # policies[c.statement.target].policy_id)
              => ValidateResult(c) # "Ok"

\* C12 witness: an attestation validated under the stored policy; the policy
\* was then updated, and a pair issued for the old policy, in order otherwise,
\* is refused with PolicyIdMismatch
C12_Witness ==
    /\ log # {}
    /\ "G1" \in DOMAIN policies
    /\ policies["G1"].policy_id = <<81>>
    /\ \E c \in IssuedCalls :
          /\ ContextPasses(c)
          /\ NotExpired(clock, c.attestation.expiration)
          /\ IssuedPolicy[c] = {<<80>>}
          /\ ValidateResult(c) = "PolicyIdMismatch"

\* C13 (as claimed): in every successful validate_attestation the msg_sender
\* of the validated statement, which is the msg_sender of the
\* StatementValidated event, is the transaction signer, and the policy of the
\* statement is the policy stored for the target program.
C13_SenderAndPolicyGenuine ==
    \A c \in ValidateCalls :
        ValidateResult(c) = "Ok"
            => /\ c.statement.msg_sender = c.signer
               /\ StatementValidated(c, clock).msg_sender = c.signer
               /\ c.statement.policy_id = policies[c.statement.target].policy_id
               /\ StatementValidated(c, clock).policy_id
                     = policies[c.statement.target].policy_id

\* C14: validate_attestation is all-or-nothing. A UsedUuid record appears,
\* and a UuidMarkedUsed event is emitted, only in a step of a call that
\* passes every check, which adds exactly its own record and its own event;
\* such a step leaves the registry, the policy accounts and the attester
\* accounts as they were, and no step alters a record that exists. So a call
\* that fails, whatever the reason, leaves the accounts as before and emits
\* nothing.
C14_OnlySuccessWrites ==
    /\ \A u \in DOMAIN used' \ DOMAIN used :
          \E c \in ValidateCalls :
              /\ ValidateResult(c) = "Ok"
              /\ c.attestation.uuid = u
              /\ used' = (u :> UsedUuidRecord(c, clock)) @@ used
              /\ Emitted = {UuidMarkedUsed(c, clock)}
    /\ \A e \in Emitted : e.uuid \in DOMAIN used' \ DOMAIN used
    /\ \A u \in DOMAIN used \cap DOMAIN used' : used'[u] = used[u]
    /\ (DOMAIN used' \ DOMAIN used # {} \/ log' # log)
          => /\ registry' = registry
             /\ attesters' = attesters
             /\ policies' = policies

C14_AllOrNothing == [][C14_OnlySuccessWrites]_vars

\* C14 witness: calls failing for a replay, a uuid mismatch, an expiry and a
\* bad signature were all on offer, and the accounts hold the one record and
\* the one event of the call that succeeded
C14_Witness ==
    /\ \E c \in ValidateCalls : AccountsLoaded(c)
                                /\ ValidateResult(c) = "AccountAlreadyInUse"
    /\ \E c \in ValidateCalls : ValidateResult(c) = "StatementIdMismatch"
    /\ \E c \in ValidateCalls : ValidateResult(c) = "AttestationExpired"
    /\ \E c \in ValidateCalls : ValidateResult(c) = "InvalidSignature"
    /\ Cardinality(DOMAIN used) = 1
    /\ Cardinality(log) = 1
    /\ \A e \in log : e.uuid \in DOMAIN used /\ used[e.uuid].used_at = e.timestamp

\* C15: cleanup_expired_uuid, called for an existing record with its creator
\* as recipient, fails with StatementNotExpired while
\* now <= expires_at + CLOCK_DRIFT_BUFFER (so at expires_at + 29 and at
\* expires_at + 30) and succeeds when now > expires_at + CLOCK_DRIFT_BUFFER
\* (so at expires_at + 31); a record is closed only in a step taken after
\* expires_at + CLOCK_DRIFT_BUFFER.
C15_Boundary ==
    \A u \in DOMAIN used :
        LET res == CleanupResult(u, used[u].validator, clock)
        IN  /\ clock <= used[u].expires_at + 30 => res = "StatementNotExpired"
            /\ clock >= used[u].expires_at + 31 => res = "Ok"

C15_ClosedOnlyAfter ==
    \A u \in DOMAIN used \ DOMAIN used' : clock >= used[u].expires_at + 31

C15_CleanupStrictlyAfterBuffer == [](C15_Boundary) /\ [][C15_ClosedOnlyAfter]_vars

\* C15 witness: at one clock value a record at expires_at + 30 is refused and
\* a record that reached expires_at + 31 has been closed
C15_Witness ==
    /\ \E u \in DOMAIN used :
          /\ clock = used[u].expires_at + 30
          /\ CleanupResult(u, used[u].validator, clock) = "StatementNotExpired"
    /\ \E e \in log :
          /\ clock = e.expires_at + 31
          /\ e.uuid \notin DOMAIN used

\* the used-uuid accounts a principal paid for that still exist
DepositsHeld(s) == Cardinality({u \in DOMAIN used : used[u].validator = s})

\* C16: cleanup_expired_uuid asks nothing of who submits it: for an existing
\* record past its window it succeeds as soon as the recorded creator is
\* named as recipient; naming any other recipient fails with Unauthorized,
\* whatever the time, and the record stays. The deposit of a closed record
\* goes to its recorded creator: every principal's deposits paid, less those
\* refunded, are the deposits of the records it created that still exist.
C16_OnlyCreatorNamed ==
    /\ \A u \in DOMAIN used : \A r \in Signers :
          /\ r # used[u].validator => CleanupResult(u, r, clock) = "Unauthorized"
          /\ (r = used[u].validator /\ CleanupEligible(clock, used[u].expires_at))
                => CleanupResult(u, r, clock) = "Ok"
    /\ \A s \in Signers : rent[s] = DepositsHeld(s)

C16_RefundedToCreator ==
    \A u \in DOMAIN used \ DOMAIN used' :
        rent' = [rent EXCEPT ![used[u].validator] = @ - 1]

C16_RefundNotRedirectable == [](C16_OnlyCreatorNamed) /\ [][C16_RefundedToCreator]_vars

\* C16 witness: a record past its window was closed and its creator holds no
\* deposit any more, while another principal holds the deposit of a record
\* for which naming the first one as recipient is refused
C16_Witness ==
    \E e \in log : \E u \in DOMAIN used :
        /\ e.uuid \notin DOMAIN used
        /\ CleanupEligible(clock, e.expires_at)
        /\ rent[e.validator] = 0
        /\ used[u].validator # e.validator
        /\ rent[used[u].validator] = 1
        /\ CleanupResult(u, e.validator, clock) = "Unauthorized"

\* what a signer other than the authority gets, as the claim has it
C17_AlwaysUnauthorized(s) ==
    /\ TransferAuthorityResult(s) = "Unauthorized"
    /\ \A k \in AttesterKeys :
          /\ RegisterAttesterResult(s, k) = "Unauthorized"
          /\ DeregisterAttesterResult(s, k) = "Unauthorized"

\* what a signer other than the authority gets
C17_Rejected(s) ==
    /\ TransferAuthorityResult(s) = "Unauthorized"
    /\ \A k \in AttesterKeys :
          /\ RegisterAttesterResult(s, k) # "Ok"
          /\ DeregisterAttesterResult(s, k) # "Ok"
          /\ k \notin DOMAIN attesters => RegisterAttesterResult(s, k) = "Unauthorized"
          /\ k \in DOMAIN attesters => DeregisterAttesterResult(s, k) = "Unauthorized"

\* what the authority gets
C17_Accepted(s) ==
    /\ TransferAuthorityResult(s) = "Ok"
    /\ \A k \in AttesterKeys :
          /\ k \notin DOMAIN attesters => RegisterAttesterResult(s, k) = "Ok"
          /\ k \in DOMAIN attesters => DeregisterAttesterResult(s, k) = "Ok"

\* C17 (as claimed): register_attester, deregister_attester and
\* transfer_authority succeed only for the current authority, and any other
\* signer gets Unauthorized.
C17_OthersUnauthorized ==
    REGISTRY_SEED \in DOMAIN registry =>
        \A s \in Signers :
            IF s = registry[REGISTRY_SEED].authority
            THEN C17_Accepted(s) ELSE C17_AlwaysUnauthorized(s)

\* C17 (amended): register_attester, deregister_attester and
\* transfer_authority succeed only for the current authority; any other signer
\* fails, with Unauthorized when the accounts of the call are in order
\* (register_attester: no account of the key exists, deregister_attester: the
\* account of the key exists), and a failed call changes nothing. In the state
\* a transfer_authority to another principal leaves, the previous authority is
\* rejected and the new one accepted.
C17_Gate ==
    REGISTRY_SEED \in DOMAIN registry =>
        \A s \in Signers :
            IF s = registry[REGISTRY_SEED].authority
            THEN C17_Accepted(s) ELSE C17_Rejected(s)

C17_Transferred ==
    \A old \in Signers :
        (/\ REGISTRY_SEED \in DOMAIN registry
         /\ registry[REGISTRY_SEED].authority = old
         /\ registry'[REGISTRY_SEED].authority # old)
            => /\ TransferAuthorityResult(old) = "Ok"
               /\ (C17_Rejected(old) /\ C17_Accepted(registry[REGISTRY_SEED].authority))'

C17_AuthorityGated == [](C17_Gate) /\ [][C17_Transferred]_vars

\* C17 witness: the registry has been updated since its creation, one attester
\* account exists and one does not, and the principal that is not the
\* authority is refused with Unauthorized for the three instructions
C17_Witness ==
    /\ REGISTRY_SEED \in DOMAIN registry
    /\ registry[REGISTRY_SEED].authority = "U2"
    /\ registry[REGISTRY_SEED].updated_at > registry[REGISTRY_SEED].created_at
    /\ DOMAIN attesters = {"A1"}
    /\ TransferAuthorityResult("U1") = "Unauthorized"
    /\ RegisterAttesterResult("U1", "A2") = "Unauthorized"
    /\ DeregisterAttesterResult("U1", "A1") = "Unauthorized"
    /\ C17_Accepted("U2")

\* C18 (as claimed): called by the authority, register_attester for a key
\* that is registered fails with AttesterAlreadyRegistered, and
\* deregister_attester for a key that is not registered, never registered or
\* deregistered since, fails with AttesterNotRegistered.
C18_NamedErrors ==
    REGISTRY_SEED \in DOMAIN registry =>
        \A k \in AttesterKeys :
            LET authority == registry[REGISTRY_SEED].authority
            IN  /\ k \in DOMAIN attesters
                      => RegisterAttesterResult(authority, k) = "AttesterAlreadyRegistered"
                /\ k \notin DOMAIN attesters
                      => DeregisterAttesterResult(authority, k) = "AttesterNotRegistered"

\* C19: total_attesters is the number of attesters registered, whatever the
\* operations so far; the decrement never underflows, so deregister_attester
\* never fails with ArithmeticError.
C19_CountIsRegistered ==
    /\ REGISTRY_SEED \in DOMAIN registry =>
          /\ registry[REGISTRY_SEED].total_attesters
                = Cardinality({k \in DOMAIN attesters : attesters[k].is_registered})
          /\ registry[REGISTRY_SEED].total_attesters >= 0
    /\ REGISTRY_SEED \notin DOMAIN registry => attesters = << >>
    /\ \A s \in Signers, k \in AttesterKeys :
          DeregisterAttesterResult(s, k) # "ArithmeticError"

\* C19 witness: the registry was updated after the one attester that is
\* registered was registered; the count is 1 and deregistering it succeeds
C19_Witness ==
    /\ REGISTRY_SEED \in DOMAIN registry
    /\ registry[REGISTRY_SEED].total_attesters = 1
    /\ DOMAIN attesters = {"A2"}
    /\ attesters["A2"].registered_at < registry[REGISTRY_SEED].updated_at
    /\ registry[REGISTRY_SEED].total_policies = 0
    /\ registry[REGISTRY_SEED].authority = "U1"
    /\ DeregisterAttesterResult("U1", "A2") = "Ok"

\* C20: initialize succeeds while no registry exists and creates it with the
\* caller as authority, both counters 0 and created_at = updated_at = now;
\* once the registry exists initialize fails for every caller, the registry
\* is never created anew, and its authority and counters change only as the
\* other instructions change them.
C20_OnlyOnce ==
    \A s \in Signers :
        InitializeResult(s) = "Ok" <=> REGISTRY_SEED \notin DOMAIN registry

C20_Created ==
    /\ (REGISTRY_SEED \notin DOMAIN registry /\ REGISTRY_SEED \in DOMAIN registry')
          => \E s \in Signers :
                registry'[REGISTRY_SEED] =
                    [authority |-> s, created_at |-> clock, updated_at |-> clock,
                     total_attesters |-> 0, total_policies |-> 0]
    /\ REGISTRY_SEED \in DOMAIN registry
          => /\ REGISTRY_SEED \in DOMAIN registry'
             /\ registry'[REGISTRY_SEED].created_at = registry[REGISTRY_SEED].created_at
             /\ registry'[REGISTRY_SEED].total_policies
                   >= registry[REGISTRY_SEED].total_policies
             /\ registry'[REGISTRY_SEED].total_attesters
                   = Cardinality(DOMAIN attesters')
             /\ registry'[REGISTRY_SEED].authority # registry[REGISTRY_SEED].authority
                   => TransferAuthorityResult(registry[REGISTRY_SEED].authority) = "Ok"

C20_InitializeOnce == [](C20_OnlyOnce) /\ [][C20_Created]_vars

\* C20 witness: a registry created after the clock moved, with attesters and
\* a policy counted since, refuses initialize from both principals
C20_Witness ==
    /\ REGISTRY_SEED \in DOMAIN registry
    /\ registry[REGISTRY_SEED].created_at = CLOCK_DRIFT_BUFFER + 1
    /\ registry[REGISTRY_SEED].total_attesters = 2
    /\ registry[REGISTRY_SEED].total_policies = 1
    /\ \A s \in Signers : InitializeResult(s) = "AccountAlreadyInUse"

\* the result of setting the policy of a program or, if it has one, updating it
PolicyWriteResult(authority, client_program, policy_id) ==
    IF client_program \in DOMAIN policies
    THEN UpdatePolicyIdResult(authority, client_program, policy_id)
    ELSE SetPolicyIdResult(authority, client_program, policy_id)

\* the result of setting the policy of a client or, if it has one, updating it
ClientPolicyWriteResult(client, policy) ==
    IF client \in DOMAIN client_policies
    THEN UpdatePolicyResult(client, policy)
    ELSE SetPolicyResult(client, policy)

\* C21: with the registry in place, set_policy_id (no policy account yet) and
\* update_policy_id (policy account there) fail with InvalidPolicyId for a
\* policy id of length 0 and with PolicyIdTooLong for one of length 65,
\* whoever signs; for the upgrade authority they accept every policy id of
\* length 1 to 64, the one of length 64 included; every PolicyAccount that
\* exists holds a policy id of length 1 to 64. Likewise set_policy and
\* update_policy with InvalidPolicy, PolicyTooLong and the cap of 200 bytes.
C21_LengthGate ==
    /\ REGISTRY_SEED \in DOMAIN registry =>
          \A s \in Signers, g \in Programs, id \in PolicyInputs :
              LET res == PolicyWriteResult(s, g, id)
              IN  /\ Len(id) = 0 => res = "InvalidPolicyId"
                  /\ Len(id) = 65 => res = "PolicyIdTooLong"
                  /\ (Len(id) \in 1..64 /\ g = "G1" /\ s = "U1") => res = "Ok"
                  /\ res = "Ok" => Len(id) \in 1..64
    /\ \A g \in DOMAIN policies : Len(policies[g].policy_id) \in 1..64
    /\ REGISTRY_SEED \in DOMAIN registry =>
          \A c \in Signers, policy \in ClientPolicyInputs :
              LET res == ClientPolicyWriteResult(c, policy)
              IN  /\ Len(policy) = 0 => res = "InvalidPolicy"
                  /\ Len(policy) = 201 => res = "PolicyTooLong"
                  /\ Len(policy) \in 1..200 <=> res = "Ok"
    /\ \A c \in DOMAIN client_policies :
          /\ client_policies[c].policy_len \in 1..200
          /\ Len(GetPolicy(client_policies[c])) = client_policies[c].policy_len

\* C21 witness: a policy id of the full 64 bytes and a policy of the full 200
\* bytes were stored by updates, and one byte more is refused
C21_Witness ==
    /\ "G1" \in DOMAIN policies
    /\ Len(policies["G1"].policy_id) = 64
    /\ policies["G1"].updated_at > policies["G1"].set_at
    /\ UpdatePolicyIdResult("U1", "G1", LongPolicyId) = "PolicyIdTooLong"
    /\ UpdatePolicyIdResult("U1", "G1", <<>>) = "InvalidPolicyId"
    /\ UpdatePolicyIdResult("U1", "G1", CapPolicyId) = "Ok"
    /\ "U2" \in DOMAIN client_policies
    /\ client_policies["U2"].policy_len = 200
    /\ client_policies["U2"].updated_at > client_policies["U2"].set_at
    /\ UpdatePolicyResult("U2", Rep(201, 82)) = "PolicyTooLong"

\* what the claim expects of the metadata account of a program and a signer
C22_Expected(g, s) ==
    LET b == ProgramDataBytes(g)
    IN  IF Len(b) < 45 THEN "InvalidProgramData"
        ELSE IF <<b[1], b[2], b[3], b[4]>> # <<3, 0, 0, 0>> THEN "InvalidProgramData"
        ELSE IF b[13] # 1 THEN "Unauthorized"
        ELSE IF [i \in 1..32 |-> b[13 + i]] # ToBytes(s) THEN "Unauthorized"
        ELSE "Ok"

\* C22: with the registry in place and a policy id of a valid length,
\* set_policy_id and update_policy_id succeed only for the signer that the
\* metadata account of the program records as upgrade authority: metadata
\* shorter than 45 bytes or with a discriminator other than 3 fails with
\* InvalidProgramData, an Option tag other than 1 or another authority fails
\* with Unauthorized. The policy accounts and total_policies change only in a
\* step of a call that passes, which writes the one account of its program.
C22_AuthorityChecked ==
    REGISTRY_SEED \in DOMAIN registry =>
        \A s \in Signers, g \in Programs, id \in PolicyIds \cup {CapPolicyId} :
            PolicyWriteResult(s, g, id) = C22_Expected(g, s)

C22_OnlyAuthorityWrites ==
    /\ policies' # policies =>
          \E s \in Signers, g \in Programs, id \in PolicyInputs :
              /\ PolicyWriteResult(s, g, id) = "Ok"
              /\ C22_Expected(g, s) = "Ok"
              /\ g \in DOMAIN policies'
              /\ policies'[g].policy_id = id
              /\ DOMAIN policies' = DOMAIN policies \cup {g}
              /\ \A h \in DOMAIN policies \ {g} : policies'[h] = policies[h]
    /\ REGISTRY_SEED \in DOMAIN registry =>
          registry'[REGISTRY_SEED].total_policies
              = registry[REGISTRY_SEED].total_policies
                  + Cardinality(DOMAIN policies' \ DOMAIN policies)

C22_UpgradeAuthorityOnly == [](C22_AuthorityChecked) /\ [][C22_OnlyAuthorityWrites]_vars

\* C22 witness: the upgrade authority has set and updated the policy of its
\* program; the other signer is refused, and so are the programs without an
\* authority, with short metadata and with another discriminator
C22_Witness ==
    /\ REGISTRY_SEED \in DOMAIN registry
    /\ DOMAIN policies = {"G1"}
    /\ policies["G1"].authority = "U1"
    /\ policies["G1"].updated_at > policies["G1"].set_at
    /\ registry[REGISTRY_SEED].total_policies = 1
    /\ UpdatePolicyIdResult("U2", "G1", <<80>>) = "Unauthorized"
    /\ SetPolicyIdResult("U1", "G2", <<80>>) = "Unauthorized"
    /\ SetPolicyIdResult("U1", "G3", <<80>>) = "InvalidProgramData"
    /\ SetPolicyIdResult("U1", "G4", <<80>>) = "InvalidProgramData"

\* C23: a PolicyAccount keeps its owner and its set_at for as long as it
\* exists: a step that changes the account of a program changes only its
\* policy id and sets updated_at to the time of the call, and a step that
\* changes the account of a client changes only its policy content (buffer and
\* length) and sets updated_at; no PolicyAccount disappears.
C23_OnlyContentChanges ==
    /\ \A g \in DOMAIN policies :
          /\ g \in DOMAIN policies'
          /\ policies[g].client_program = g
          /\ policies'[g] = [policies[g] EXCEPT
                                !.policy_id = policies'[g].policy_id,
                                !.updated_at = policies'[g].updated_at]
          /\ policies'[g] # policies[g] => policies'[g].updated_at = clock
    /\ \A c \in DOMAIN client_policies :
          /\ c \in DOMAIN client_policies'
          /\ client_policies[c].client = c
          /\ client_policies'[c] = [client_policies[c] EXCEPT
                                       !.policy = client_policies'[c].policy,
                                       !.policy_len = client_policies'[c].policy_len,
                                       !.updated_at = client_policies'[c].updated_at]
          /\ client_policies'[c] # client_policies[c]
                => client_policies'[c].updated_at = clock

C23_OwnerNeverChanges == [][C23_OnlyContentChanges]_vars

\* C23 witness: the policy of a program and the policy of a client were both
\* updated after the time they were set, and name their owners
C23_Witness ==
    /\ "G1" \in DOMAIN policies
    /\ policies["G1"].client_program = "G1"
    /\ policies["G1"].set_at < policies["G1"].updated_at
    /\ "U1" \in DOMAIN client_policies
    /\ client_policies["U1"].client = "U1"
    /\ client_policies["U1"].set_at < client_policies["U1"].updated_at

\* the times of calls from now on
Later(t) == t..(CLOCK_DRIFT_BUFFER + MaxTicks)

\* C24: update_policy applied twice in a row with the same policy, to any
\* PolicyAccount that exists, leaves after the second call what the first
\* call left (owner, set_at, content), with updated_at the time of the second
\* call; and a step that updates an account to the content it already holds
\* changes nothing but updated_at.
C24_TwiceIsOnce ==
    \A c \in DOMAIN client_policies :
      \A v \in {w \in ClientPolicyInputs : UpdatePolicyResult(c, w) = "Ok"} :
        \A t1 \in Later(clock) : \A t2 \in Later(t1) :
            LET first == ClientPolicyUpdate(client_policies[c], v, t1)
                second == ClientPolicyUpdate(first, v, t2)
            IN  /\ second = [first EXCEPT !.updated_at = t2]
                /\ GetPolicy(second) = v
                /\ GetPolicy(first) = v
                /\ second.client = client_policies[c].client
                /\ second.set_at = client_policies[c].set_at

C24_SameValueStep ==
    \A c \in DOMAIN client_policies \cap DOMAIN client_policies' :
        (/\ client_policies'[c] # client_policies[c]
         /\ GetPolicy(client_policies'[c]) = GetPolicy(client_policies[c]))
            => client_policies'[c] = [client_policies[c] EXCEPT !.updated_at = clock]

C24_UpdateIdempotent == [](C24_TwiceIsOnce) /\ [][C24_SameValueStep]_vars

\* C24 witness: an account updated at the current time, after it was set, to
\* a content that update_policy accepts once more
C24_Witness ==
    \E c \in DOMAIN client_policies :
        /\ client_policies[c].set_at < client_policies[c].updated_at
        /\ client_policies[c].updated_at = clock
        /\ GetPolicy(client_policies[c]) = <<80>>
        /\ UpdatePolicyResult(c, <<80>>) = "Ok"
        /\ ClientPolicyUpdate(client_policies[c], <<80>>, clock) = client_policies[c]

\* the fields in which the two tasks given to the builder differ
Differing == {f \in TaskFields : hashing.a[f] # hashing.b[f]}

\* C25 (as claimed): hash_task_safe binds every field: two tasks that differ
\* in one of uuid, msg_sender, target, msg_value, encoded_sig_and_args, policy
\* and expiration, hashed for one submitter, and one task hashed for two
\* submitters, give different byte strings and different digests.
C25_EveryFieldBound ==
    (/\ hashing.state = "hashed"
     /\ \/ Differing # {} /\ hashing.va = hashing.vb
        \/ Differing = {} /\ hashing.va # hashing.vb)
        => /\ hashing.ha # hashing.hb
           /\ hashing.da # hashing.db

\* the attestors that are registered
Registered == {k \in DOMAIN attesters : attesters[k].is_registered}

\* C26, first part: in the state a successful deregister_attester(k) leaves,
\* register_attester(k) by the registry authority succeeds.
C26_RegistersAgain ==
    [][\A k \in Registered \ Registered' :
          (RegisterAttesterResult(registry[REGISTRY_SEED].authority, k) = "Ok")']_vars

\* C26, second part: while an attestor is registered, for the first time or
\* again, the pairs it issued validate (accounts in place, stored policy, not
\* expired, uuid not consumed), and the step that registers it leaves
\* total_attesters equal to the number of registered attestors.
C26_ValidatesWhileRegistered ==
    \A c \in IssuedCalls :
        (/\ AccountsLoaded(c)
         /\ c.attestation.attester \in Registered
         /\ c.statement.policy_id = policies[c.statement.target].policy_id
         /\ NotExpired(clock, c.statement.expiration)
         /\ c.attestation.uuid \notin DOMAIN used)
            => ValidateResult(c) = "Ok"

C26_CountAfterRegistration ==
    [][Registered' \ Registered # {} =>
          registry'[REGISTRY_SEED].total_attesters = Cardinality(Registered')]_vars

\* C26: a deregistered attestor can be registered again by the authority,
\* after which its attestations validate again and total_attesters is the
\* number of registered attestors.
C26_ReRegistration ==
    /\ C26_RegistersAgain
    /\ [](C26_ValidatesWhileRegistered)
    /\ C26_CountAfterRegistration

\* attestor A1 validated a pair, was deregistered and registered again, and
\* validated another pair after that
C26_Witness ==
    /\ "A1" \in Registered
    /\ \E e1 \in log, e2 \in log :
          /\ e1.uuid = 1 /\ e2.uuid = 1
          /\ e1.timestamp < attesters["A1"].registered_at
          /\ attesters["A1"].registered_at <= e2.timestamp
    /\ registry[REGISTRY_SEED].total_attesters = Cardinality(Registered)

C30_Ordered ==
    /\ \A r \in DOMAIN registry : registry[r].created_at <= registry[r].updated_at
    /\ \A g \in DOMAIN policies : policies[g].set_at <= policies[g].updated_at
    /\ \A k \in DOMAIN client_policies :
          client_policies[k].set_at <= client_policies[k].updated_at

\* C30, the steps: no step lowers the updated_at of the registry or of a
\* policy account.
C30_NeverDecreases ==
    [][/\ \A r \in DOMAIN registry :
              r \in DOMAIN registry' /\ registry[r].updated_at <= registry'[r].updated_at
       /\ \A g \in DOMAIN policies :
              g \in DOMAIN policies' /\ policies[g].updated_at <= policies'[g].updated_at
       /\ \A k \in DOMAIN client_policies :
              /\ k \in DOMAIN client_policies'
              /\ client_policies[k].updated_at <= client_policies'[k].updated_at]_vars

\* C30: the timestamps are monotonic: updated_at of the registry and of every
\* policy account never decreases and is never before created_at or set_at.
C30_TimestampsMonotonic == [](C30_Ordered) /\ C30_NeverDecreases

\* the registry and the policy account of a client were written again at a
\* later time than they were created
C30_Witness ==
    /\ REGISTRY_SEED \in DOMAIN registry
    /\ registry[REGISTRY_SEED].created_at < registry[REGISTRY_SEED].updated_at
    /\ \E k \in DOMAIN client_policies :
          client_policies[k].set_at < client_policies[k].updated_at

\* C28, the gate: increment succeeds only on a statement whose
\* encoded_sig_and_args is that of increment(), whose msg_sender is the owner
\* of the counter and whose target is the counter program, and only when
\* validate_attestation of the registry succeeds on it.
C28_Gate ==
    \A owner \in CounterOwners, counter \in CounterOwners,
       attester_account \in AttesterKeys, c \in IncrementCalls :
        IncrementResult(owner, counter, attester_account, c) = "Ok" =>
            /\ c.statement.encoded_sig_and_args = IncrementSig
            /\ c.statement.msg_sender = counters[counter].owner
            /\ c.statement.target = COUNTER_PROGRAM
            /\ ValidateResult(CpiCall(c, owner)) = "Ok"

\* C28, the steps: a step changes the value of a counter only by adding 1,
\* and only as a successful increment by its owner, which consumes one uuid;
\* no step removes a counter.
C28_Steps ==
    [][\A k \in DOMAIN counters :
          /\ k \in DOMAIN counters'
          /\ counters'[k].value # counters[k].value =>
                /\ counters'[k].value = counters[k].value + 1
                /\ \E a \in AttesterKeys, c \in IncrementCalls :
                      /\ IncrementResult(counters[k].owner, k, a, c) = "Ok"
                      /\ Emitted = {UuidMarkedUsed(CpiCall(c, counters[k].owner), clock)}
                      /\ c.attestation.uuid \in DOMAIN used' \ DOMAIN used]_vars

\* C28, the bound: the value of a counter never exceeds the number of uuids
\* its owner consumed.
C28_Bounded ==
    \A k \in DOMAIN counters :
        counters[k].value <= Cardinality({e \in log : e.validator = counters[k].owner})

\* C28: the counter goes up by exactly 1, and only through an increment whose
\* statement is for increment(), from the owner, for the counter program, and
\* validated by the registry; otherwise it does not change, and it never
\* exceeds the number of uuids consumed.
C28_IncrementGated == [](C28_Gate /\ C28_Bounded) /\ C28_Steps

\* a counter was incremented twice
C28_Witness ==
    \E k \in DOMAIN counters :
        /\ counters[k].value = 2
        /\ Cardinality({e \in log : e.validator = counters[k].owner}) = 2

\* C29, the gate: protected_transfer succeeds only when the protected account
\* is active, the task's msg_sender is the owner, its target is the
\* destination account, its msg_value is the amount, the task is not expired,
\* and validate_attestation of the registry succeeds.
C29_Gate ==
    \A owner \in Signers, p \in ProtectedKeys, source \in SourceKeys,
       destination \in DestinationKeys, amount \in 1..MaxTokens, c \in TransferCalls :
        ProtectedTransferResult(owner, p, source, destination, amount, c) = "Ok" =>
            /\ protected[p].is_active
            /\ c.task.msg_sender = owner
            /\ c.task.target = destination
            /\ c.task.msg_value = amount
            /\ clock <= c.task.expiration
            /\ ValidateTaskResult(c.task, c.attestation.attester, c.attestation,
                                  owner, clock) = "Ok"

\* C29, the steps: a step that changes a token balance or the statistics of
\* a protected account is a successful protected_transfer: it moves the
\* amount from the source to the destination, adds 1 to transfer_count and
\* the amount to total_transferred of that account and changes no other.
C29_Steps ==
    [][(\/ token_accounts' # token_accounts
        \/ \E p \in DOMAIN protected :
              \/ p \notin DOMAIN protected'
              \/ protected'[p].transfer_count # protected[p].transfer_count
              \/ protected'[p].total_transferred # protected[p].total_transferred)
          => \E owner \in Signers, p \in ProtectedKeys, source \in SourceKeys,
                destination \in DestinationKeys, amount \in 1..MaxTokens, c \in TransferCalls :
                /\ ProtectedTransferResult(owner, p, source, destination, amount, c) = "Ok"
                /\ token_accounts' = TokenTransfer(token_accounts, source, destination,
                                                   amount)
                /\ protected' = [protected EXCEPT
                                   ![p].transfer_count = @ + 1,
                                   ![p].total_transferred = @ + amount,
                                   ![p].updated_at = clock]]_vars

\* C29: tokens move and the statistics change, by 1 and by the amount, only
\* in a protected_transfer that passed every check and the validation of the
\* registry; otherwise balances and statistics are unchanged.
C29_TransferGated == [](C29_Gate) /\ C29_Steps

\* two protected transfers moved two tokens from T1 to T2
C29_Witness ==
    /\ <<"T1", "U1">> \in DOMAIN protected
    /\ protected[<<"T1", "U1">>].transfer_count = 2
    /\ protected[<<"T1", "U1">>].total_transferred = 2
    /\ token_accounts["T2"].amount = 2
    /\ token_accounts["T1"].amount = MaxTokens - 2

\* ------------------------------------------------------------------ C31

\* what each stage of a validation asks of a call.  The spec's AttestorVerified
\* is taken in its two parts, the attester account (it exists and is
\* registered) and the attester key of the call; Committed is the replay
\* record, which must not exist yet.
StageHolds(c, stage) ==
    CASE stage = "Received" ->
            /\ REGISTRY_SEED \in DOMAIN registry
            /\ c.statement.target \in DOMAIN policies
      [] stage = "InputValidated" ->
            /\ Len(c.attestation.signature) = SIG_LEN
            /\ c.statement.policy_id # <<>>
            /\ policies[c.statement.target].policy_id # <<>>
      [] stage = "NotExpired" ->
            /\ c.statement.uuid = c.attestation.uuid
            /\ c.statement.expiration = c.attestation.expiration
            /\ clock <= c.attestation.expiration + CLOCK_DRIFT_BUFFER
            /\ clock <= c.statement.expiration + CLOCK_DRIFT_BUFFER
      [] stage = "PolicyMatched" ->
            c.statement.policy_id = policies[c.statement.target].policy_id
      [] stage = "AttestorRegistered" ->
            /\ c.attestation.attester \in DOMAIN attesters
            /\ attesters[c.attestation.attester].is_registered
      [] stage = "AttestorKeyMatched" ->
            c.attester_key = c.attestation.attester
      [] stage = "SignatureProved" -> c \in ProofCorrectCalls
      [] stage = "Committed" -> c.attestation.uuid \notin DOMAIN used

\* the errors with which a stage turns a call down
StageErrors(stage) ==
    CASE stage = "Received" -> {"AccountNotInitialized"}
      [] stage = "InputValidated" -> {"InvalidSignature", "InvalidPolicyId"}
      [] stage = "NotExpired" ->
            {"StatementIdMismatch", "ExpirationMismatch", "AttestationExpired",
             "StatementExpired"}
      [] stage = "PolicyMatched" -> {"PolicyIdMismatch"}
      [] stage = "AttestorRegistered" ->
            {"AccountNotInitialized", "AttesterNotRegisteredForValidation"}
      [] stage = "AttestorKeyMatched" -> {"WrongAttester"}
      [] stage = "SignatureProved" -> {"InvalidSignature"}
      [] stage = "Committed" -> {"AccountAlreadyInUse"}

\* the order in which the spec has the stages applied
SpecStageOrder ==
    <<"Received", "InputValidated", "NotExpired", "PolicyMatched",
      "AttestorRegistered", "AttestorKeyMatched", "SignatureProved", "Committed">>

\* the order in which the program applies them: the accounts of the context,
\* the replay record among them, then the checks of the handler
CodeStageOrder ==
    <<"Received", "AttestorRegistered", "Committed", "InputValidated",
      "NotExpired", "PolicyMatched", "AttestorKeyMatched", "SignatureProved">>

\* the first stage of the order that the call does not pass, "none" if it
\* passes them all
RECURSIVE FirstViolated(_, _)
FirstViolated(c, order) ==
    IF order = <<>> THEN "none"
    ELSE IF ~StageHolds(c, Head(order)) THEN Head(order)
    ELSE FirstViolated(c, Tail(order))

\* the stages a call does not pass, each looked at once the accounts it reads
\* are there
ViolatedStages(c) ==
    {s \in {SpecStageOrder[i] : i \in DOMAIN SpecStageOrder} :
        /\ s \in {"InputValidated", "PolicyMatched"} => StageHolds(c, "Received")
        /\ ~StageHolds(c, s)}

ReportsFirstOf(c, order) ==
    LET s == FirstViolated(c, order)
    IN  IF s = "none" THEN ValidateResult(c) = "Ok"
        ELSE ValidateResult(c) \in StageErrors(s)

\* C31 (as claimed): validate_attestation applies its checks in the order
\* Received, InputValidated, NotExpired, PolicyMatched, AttestorVerified,
\* SignatureProved, Committed; a call that violates several of them gets the
\* error of the earliest one in that order, the replay record coming last.
C31_SpecOrder == \A c \in ValidateCalls : ReportsFirstOf(c, SpecStageOrder)

\* on every call the error is the one of the earliest violated stage in the
\* program's order
C31_ErrorOfEarliest == \A c \in ValidateCalls : ReportsFirstOf(c, CodeStageOrder)

\* a replay record is written only by a call that passes every stage
C31_CommittedLast ==
    [][\A u \in DOMAIN used' \ DOMAIN used :
          \E c \in ValidateCalls :
              /\ c.attestation.uuid = u
              /\ ViolatedStages(c) = {}
              /\ used'[u] = UsedUuidRecord(c, clock)]_vars

\* C31 (amended): validate_attestation applies its checks in the order
\* Received (the registry and policy accounts exist), the attester account
\* (it exists and is registered), the replay record (no UsedUuid account of
\* the uuid), InputValidated, NotExpired, PolicyMatched, the attester key,
\* SignatureProved; a call that violates several of them gets the error of
\* the earliest one in that order, and a replay record is written only by a
\* call that passes them all.
C31_CheckOrder == []C31_ErrorOfEarliest /\ C31_CommittedLast

\* C31 witness: with the record of uuid 1 in place, an expired call carrying
\* uuid 1 is answered with the create-or-fail error, an expired call of an
\* attester without account with the missing-account error, and an expired
\* call that also carries another policy and no proof is reported as expired
C31_Witness ==
    /\ \E c \in ValidateCalls :
          /\ {"Committed", "NotExpired"} \subseteq ViolatedStages(c)
          /\ StageHolds(c, "AttestorRegistered")
          /\ ValidateResult(c) = "AccountAlreadyInUse"
    /\ \E c \in ValidateCalls :
          /\ {"AttestorRegistered", "NotExpired"} \subseteq ViolatedStages(c)
          /\ ValidateResult(c) = "AccountNotInitialized"
    /\ \E c \in ValidateCalls :
          /\ {"NotExpired", "PolicyMatched", "SignatureProved"}
                \subseteq ViolatedStages(c)
          /\ ~(clock <= c.attestation.expiration + CLOCK_DRIFT_BUFFER)
          /\ ValidateResult(c) = "AttestationExpired"

\* ------------------------------------------------------------------ C32

\* a call that reaches the expiry checks as the spec orders them: the accounts
\* are in order, the input is validated and the two uuids agree
ReachesExpiry(c) ==
    /\ ContextPasses(c)
    /\ StageHolds(c, "InputValidated")
    /\ c.statement.uuid = c.attestation.uuid

\* C32: the expiry of the Task (Statement) is checked independently of the
\* Attestation's: a call whose Statement has expired fails with
\* StatementExpired and a call whose Attestation has expired fails with
\* AttestationExpired (with either of the two when both have expired).
C32_ExpiryIndependent ==
    \A c \in ValidateCalls :
        LET st_expired == ~(clock <= c.statement.expiration + CLOCK_DRIFT_BUFFER)
            att_expired == ~(clock <= c.attestation.expiration + CLOCK_DRIFT_BUFFER)
        IN  ReachesExpiry(c) =>
              /\ (st_expired /\ ~att_expired) => ValidateResult(c) = "StatementExpired"
              /\ (att_expired /\ ~st_expired) => ValidateResult(c) = "AttestationExpired"
              /\ (att_expired /\ st_expired) =>
                    ValidateResult(c) \in {"AttestationExpired", "StatementExpired"}

\* ------------------------------------------------------------------ C33

\* the conditions under which the verifier is to accept, for a call p
ProofConditions(p) ==
    /\ p.tx.cur >= 1
    /\ p.tx.cur \in DOMAIN p.tx.ixs
    /\ LET ix == p.tx.ixs[p.tx.cur]
           d == ix.data
       IN  /\ ix.program_id = ED25519_PROGRAM
           /\ ix.accounts = <<>>
           /\ Len(d) >= 16
           /\ d[1] = 1
           /\ LET sig == U16FromLe(d[3], d[4])
                  pk == U16FromLe(d[7], d[8])
                  msg == U16FromLe(d[11], d[12])
                  size == U16FromLe(d[13], d[14])
              IN  /\ U16FromLe(d[5], d[6]) = 65535
                  /\ U16FromLe(d[9], d[10]) = 65535
                  /\ U16FromLe(d[15], d[16]) = 65535
                  /\ sig >= 16 /\ pk >= 16 /\ msg >= 16
                  /\ sig + 64 <= Len(d)
                  /\ pk + 32 <= Len(d)
                  /\ msg + size <= Len(d)
                  /\ size = 32
                  /\ SubSeq(d, sig + 1, sig + 64) = p.signature
                  /\ SubSeq(d, pk + 1, pk + 32) = p.pubkey
                  /\ SubSeq(d, msg + 1, msg + size) = p.message

\* C33: the Signature Proof Verifier accepts if and only if the instruction
\* at index - 1 targets the native Ed25519 program, declares no accounts, has
\* at least 16 bytes of data, num_signatures = 1, its three instruction-index
\* fields are 0xFFFF, its three offsets are at least 16, each region lies
\* within the data, msg_size = 32 and the three regions equal the expected
\* signature, public key and digest; every other call fails with
\* InvalidSignature.
C33_AcceptsIff ==
    probe.result \notin {"idle", "none"} =>
        probe.result = IF ProofConditions(probe) THEN "Ok" ELSE "InvalidSignature"

\* C33 witness: the verifier accepted data whose regions lie one byte further
\* back than usual
C33_Witness ==
    /\ probe.result = "Ok"
    /\ LET d == probe.tx.ixs[probe.tx.cur].data
       IN  U16FromLe(d[3], d[4]) = HEADER_LEN + 1

\* ------------------------------------------------------------------ C36

\* C36: the verifier is total and memory-safe on arbitrary data of the
\* instruction before: whatever the length of the data (from 0 on) and the
\* header fields (offsets and msg_size up to 65535), it returns Ok or an error
\* and reads no index outside the data.
C36_TotalInBounds ==
    (probe.result \notin {"idle", "none"} /\ probe.tx.cur \in DOMAIN probe.tx.ixs) =>
        LET ix == probe.tx.ixs[probe.tx.cur]
        IN  /\ probe.result \in {"Ok", "InvalidSignature"}
            /\ \A i \in VerifyInstructionReads(ix) : 0 <= i /\ i < Len(ix.data)

\* C36 witness: the verifier turned down data whose header asks for a message
\* of 65535 bytes
C36_Witness ==
    /\ probe.result = "InvalidSignature"
    /\ probe.tx.cur \in DOMAIN probe.tx.ixs
    /\ LET d == probe.tx.ixs[probe.tx.cur].data
       IN  /\ Len(d) >= HEADER_LEN
           /\ probe.tx.ixs[probe.tx.cur].program_id = ED25519_PROGRAM
           /\ U16FromLe(d[13], d[14]) = 65535
           /\ U16FromLe(d[3], d[4]) = HEADER_LEN

\* ------------------------------------------------------------------ C34

\* C34: there is at most one PolicyAccount per program: set_policy_id for a
\* program that has one fails (and so leaves the policy as it is), and
\* update_policy_id for a program that has none fails with PolicyNotFound.
C34_OnePolicyPerProgram ==
    \A authority \in Signers, client_program \in Programs, policy_id \in PolicyInputs :
        /\ client_program \in DOMAIN policies
              => SetPolicyIdResult(authority, client_program, policy_id) # "Ok"
        /\ (REGISTRY_SEED \in DOMAIN registry /\ client_program \notin DOMAIN policies)
              => UpdatePolicyIdResult(authority, client_program, policy_id)
                    = "PolicyNotFound"

\* ------------------------------------------------------------------ C35

\* the count is the number of PolicyAccounts that exist
C35_CountIsAccounts ==
    /\ REGISTRY_SEED \notin DOMAIN registry => policies = << >>
    /\ REGISTRY_SEED \in DOMAIN registry =>
          registry[REGISTRY_SEED].total_policies = Cardinality(DOMAIN policies)

\* the count never decreases; it goes up by one in the steps that create a
\* PolicyAccount (the successful set_policy_id) and stays in every other step
C35_CountSteps ==
    REGISTRY_SEED \in DOMAIN registry =>
        /\ REGISTRY_SEED \in DOMAIN registry'
        /\ registry'[REGISTRY_SEED].total_policies
              >= registry[REGISTRY_SEED].total_policies
        /\ registry'[REGISTRY_SEED].total_policies =
              registry[REGISTRY_SEED].total_policies
                 + Cardinality(DOMAIN policies' \ DOMAIN policies)
        /\ Cardinality(DOMAIN policies' \ DOMAIN policies) <= 1
        /\ (used' # used \/ attesters' # attesters
              \/ \E g \in DOMAIN policies : policies'[g] # policies[g])
              => registry'[REGISTRY_SEED].total_policies =
                    registry[REGISTRY_SEED].total_policies

\* C35: total_policies never decreases and always equals the number of
\* PolicyAccounts that exist: it goes up by 1 on each successful
\* set_policy_id and is left alone by update_policy_id, validate_attestation,
\* the attester operations and every failed call.
C35_PolicyCount == [](C35_CountIsAccounts) /\ [][C35_CountSteps]_vars

\* C35 witness: two policies were set, one of them updated since, an attester
\* registered and an attestation validated, and the count is 2
C35_Witness ==
    /\ REGISTRY_SEED \in DOMAIN registry
    /\ registry[REGISTRY_SEED].total_policies = 2
    /\ Cardinality(DOMAIN policies) = 2
    /\ \E g \in DOMAIN policies : policies[g].updated_at > policies[g].set_at
    /\ attesters # << >>
    /\ used # << >>

\* ------------------------------------------------------------------ C37

\* every record stands under its own uuid, was written within the drift
\* buffer of its expiration, and has the event of its creation in the log
C37_RecordSound ==
    \A u \in DOMAIN used :
        /\ used[u].uuid = u
        /\ used[u].used_at <= used[u].expires_at + CLOCK_DRIFT_BUFFER
        /\ used[u].used_at <= clock
        /\ [uuid |-> u, validator |-> used[u].validator,
            expires_at |-> used[u].expires_at, timestamp |-> used[u].used_at] \in log

\* a record appears in the step of one successful validate_attestation, with
\* the uuid and the expiration of its attestation, the clock and the signer
\* who paid the deposit; it is never rewritten, and it goes only in a step in
\* which cleanup_expired_uuid succeeds for it
C37_RecordSteps ==
    /\ \A u \in DOMAIN used' \ DOMAIN used :
          /\ DOMAIN used' = DOMAIN used \cup {u}
          /\ \E c \in ValidateCalls :
                /\ ValidateResult(c) = "Ok"
                /\ c.attestation.uuid = u
                /\ used'[u] = [uuid |-> c.attestation.uuid, used_at |-> clock,
                               expires_at |-> c.attestation.expiration,
                               validator |-> c.signer]
                /\ rent' = [rent EXCEPT ![c.signer] = @ + 1]
                /\ Emitted = {UuidMarkedUsed(c, clock)}
    /\ \A u \in DOMAIN used \cap DOMAIN used' : used'[u] = used[u]
    /\ \A u \in DOMAIN used \ DOMAIN used' :
          CleanupResult(u, used[u].validator, clock) = "Ok"

\* C37: every UsedUuid record that exists was created by one successful
\* validate_attestation; its uuid is the uuid of the validated attestation,
\* its expires_at the attestation's expiration, its creator the signer who
\* paid, and used_at <= expires_at + CLOCK_DRIFT_BUFFER; no operation changes
\* a field of a record between its creation and its closing by
\* cleanup_expired_uuid.
C37_RecordIntegrity == [](C37_RecordSound) /\ [][C37_RecordSteps]_vars

\* C37 witness: the record of a uuid that was validated, cleaned up and
\* validated again holds the second validation, and a record paid by U2 for a
\* statement of msg_sender U1 names U2
C37_Witness ==
    \E u \in DOMAIN used :
        /\ Cardinality({e \in log : e.uuid = u}) = 2
        /\ used[u].used_at = CLOCK_DRIFT_BUFFER + 1
        /\ used[u].expires_at = 1
        /\ used[u].validator = "U2"
        /\ rent["U2"] = 1

\* ------------------------------------------------------------------ C38

\* C38: policy bytes round-trip between the stored and the Task
\* representation: for every policy set_policy accepted (1 to 200 bytes, zero
\* bytes included), a Task carrying the same bytes zero-padded to 200 has
\* Task.get_policy() equal to PolicyAccount.get_policy().
C38_PolicyRoundTrip ==
    \A client \in DOMAIN client_policies :
        LET stored == GetPolicy(client_policies[client])
        IN  TaskGetPolicy(PolicyBuffer(stored)) = stored

\* ------------------------------------------------------------------ C39

\* C39: the byte string the Message Builder hashes is unambiguous in its
\* fields of variable length: two Tasks with equal uuid, msg_sender,
\* msg_value and expiration, hashed for the same submitter, whose byte
\* strings are equal have equal encoded_sig_and_args and equal policy bytes.
C39_Unambiguous ==
    (/\ hashing.state = "hashed"
     /\ hashing.va = hashing.vb
     /\ \A f \in {"uuid", "msg_sender", "msg_value", "expiration"} :
            hashing.a[f] = hashing.b[f]
     /\ hashing.ha = hashing.hb)
        => /\ hashing.a.encoded_sig_and_args = hashing.b.encoded_sig_and_args
           /\ hashing.a.policy_id = hashing.b.policy_id

\* ------------------------------------------------------------------ C40

\* a is at most b plus n, as integers: an i64 near i64::MIN is below one
\* near zero, and that below one near i64::MAX
AtMostPlus(a, b, n) ==
    \/ a.base < b.base
    \/ a.base = b.base /\ a.off <= b.off + n

\* C40: for every signed 64-bit expiration value, those within 30 of the
\* maximum included, validate_attestation decides expiry as the integer
\* comparison now <= expiration + 30 and cleanup_expired_uuid decides
\* eligibility as now > expires_at + 30: the addition neither wraps nor
\* aborts, so a far-future expiration is accepted and is not cleanable early.
C40_FullWidthExpiry ==
    LET live == AtMostPlus(expiry.now, expiry.expiration, CLOCK_DRIFT_BUFFER)
    IN  /\ expiry.validate \notin {"idle", "none"} =>
               expiry.validate = IF live THEN "Ok" ELSE "AttestationExpired"
        /\ expiry.cleanup \notin {"idle", "none"} =>
               expiry.cleanup = IF live THEN "StatementNotExpired" ELSE "Ok"

====
